---------------------------- MODULE Spec2Model ----------------------------
(***************************************************************************)
(* State-machine model of metaclass-registry: the registration engine      *)
(* (AutoRegisterMeta), the lazy discovery store (LazyDiscoveryDict), the   *)
(* package scanner (discovery.py) and the cache layer (cache.py).          *)
(*                                                                         *)
(* One process owns one primary store and one secondary store.  The disk   *)
(* (cache file, package files), the clock and the version probe outlive    *)
(* the process: Restart starts a new process on the same disk.             *)
(***************************************************************************)
EXTENDS Integers, Sequences, FiniteSets, TLC

----------------------------------------------------------------------------
(* Values *)

Keys == {"a", "b"}
None == "None"            \* Python None / a key absent from a dict
Unset == "Unset"          \* attribute not set in the class's own body
Undeclared == "Undeclared"  \* class statement not executed in this process
Skipped == "Skipped"      \* class statement executed, name bound to None

\* The classes of the program: a contract root, two application classes
\* declared outside the discovery package, and three classes inside it.
Root == "Root"
AppClasses == {"X", "Y"}
PkgClasses == {"P", "Q", "R"}
\* Z is a further application class whose name the key extractor rejects.
KeyClasses == AppClasses \cup {"Z"}
ClassIds == {Root} \cup KeyClasses \cup PkgClasses

\* The discovery package: m1 and m2 are direct child modules, m3 lies in the
\* sub-package "sub" (present on disk only when hasSub).
Modules == {"m1", "m2", "m3"}
TopModules == <<"m1", "m2">>
SubModules == <<"m3">>
AppModule == "app"

\* A class of another registry of the same application: it is defined in a
\* module outside the discovery package and is no subclass of Root.
ForeignClass == "F"
ForeignModule == "other"

Parent(c) == IF c = Root THEN None ELSE IF c = "Y" THEN "X" ELSE Root

ModuleOf(c) ==
  CASE c = "P" -> "m1"
    [] c = "Q" -> "m2"
    [] c = "R" -> "m3"
    [] c = ForeignClass -> ForeignModule
    [] OTHER -> AppModule

\* Y is defined inside a function body: it is no attribute of its module.
IsModuleAttr(c) == c # "Y"

\* What the key extractor derives from the declared name of c; for a name
\* without the expected suffix it yields nothing.
XKey(c) ==
  CASE c = "X" -> "a"
    [] c = "Y" -> "b"
    [] c = "Z" -> None
    [] c = "P" -> "a"
    [] c = "Q" -> "b"
    [] c = "R" -> "a"
    [] OTHER -> "b"

\* Class bodies: the key attribute set in the body (a key, None, or not set),
\* whether the class is left abstract, whether it sets the secondary attribute.
Bodies == [key : Keys \cup {None, Unset}, abstract : BOOLEAN, hasSec : BOOLEAN]

\* The bodies of the package's classes are fixed by the files on disk.
PkgBody(c) ==
  CASE c = "P" -> [key |-> "a", abstract |-> FALSE, hasSec |-> TRUE]
    [] c = "Q" -> [key |-> "b", abstract |-> FALSE, hasSec |-> FALSE]
    [] OTHER   -> [key |-> "a", abstract |-> FALSE, hasSec |-> FALSE]

\* Module bodies, statement by statement.  m2 reads the store while it is
\* being imported; m3 fails after its class statement.
Stmts(m) ==
  CASE m = "m1" -> << <<"class", "P">> >>
    [] m = "m2" -> << <<"class", "Q">>, <<"read", "">> >>
    [] OTHER    -> << <<"class", "R">>, <<"raise", "">> >>

----------------------------------------------------------------------------
(* Bounds and program constants *)

MaxRestarts == 1          \* process restarts explored
MaxRuns == 2              \* the discovery-run counter saturates here
MaxAgeDays == 7           \* core.py: CacheConfig(max_age_days=7)
MtimeTolerance == 1       \* cache.py: abs(current - cached) > 1.0
MaxMtime == 2             \* file mtimes explored: 0..MaxMtime

FormatVersion == "1.0"    \* CacheConfig.cache_version
Versions == {"1.0", "2.0"}
TimePoints == {0, MaxAgeDays, MaxAgeDays + 1}

\* How the scan is wired (RegistryConfig.discovery_function, and whether the
\* root package of the discovery package provides core.registry_discovery).
Scanners == {"host_missing", "host", "custom_flat", "custom_raising"}

\* RegistryConfig.discovery_package as the program writes it: the plugin
\* package, left out (None), or the empty string.
PkgSettings == {"given", "unset", "empty"}

\* The map a secondary binding names: a plain dict, which the first
\* declaration wraps, or a SecondaryRegistryDict the program built itself.
SecMaps == {"plain", "lazy"}

\* The key source of the secondary binding: the primary key or an attribute
\* of its own.
SecKeySources == {"primary", "own"}

\* The program: how the contract's RegistryConfig and store are written.
Programs ==
  [pkg : PkgSettings, cache : BOOLEAN, scanner : Scanners, recursive : BOOLEAN,
   extractor : BOOLEAN, skip : BOOLEAN, sec : SecMaps,
   secKey : SecKeySources]

\* Programs with the binding of the tests: a plain map, keyed by the primary
\* key.
PlainBinding(p) == p.sec = "plain" /\ p.secKey = "primary"

----------------------------------------------------------------------------
(* State *)

VARIABLES
  prog,        \* the program's RegistryConfig / store construction (fixed)
  text,        \* the bodies of the application's classes and the root (fixed)
  hasSub,      \* the package holds the sub-package "sub" (fixed)
  registry,    \* primary store: insertion-ordered <<key, class>> pairs
  secondary,   \* secondary store: insertion-ordered <<key, value>> pairs
  config,      \* LazyDiscoveryDict._config / _cache_manager after _set_config
  discovered,  \* LazyDiscoveryDict._discovered
  keyAttr,     \* per class: its own key attribute (after write-back)
  secAttr,     \* per class: whether its own body sets the secondary attribute
  imported,    \* package modules in sys.modules
  cacheFile,   \* the cache file on disk
  mtime,       \* package files on disk: file -> mtime
  now,         \* the clock, in days
  probe,       \* what the version probe returns
  restarts,    \* processes started so far
  latest,      \* history: key -> the type declared last under that key
  runs,        \* history: times the discovery body was started
  report,      \* history: what the discovery of this process did
  nested,      \* history: what a read issued during discovery observed
  last,        \* history: the last operation and its outcome
  harness,     \* a direct caller of the cache manager: its items and results
  threads,     \* threads inside _discover: their positions, the caller's lock
  scan,        \* a direct caller of the scanner: its package, calls and results
  extract,     \* a direct caller of a suffix extractor: its inputs and result
  auto         \* types declared without a RegistryConfig, and their registries

vars == <<prog, text, hasSub, registry, secondary, config, discovered, keyAttr,
          secAttr, imported, cacheFile, mtime, now, probe, restarts, latest,
          runs, report, nested, last, harness, threads, scan, extract, auto>>

----------------------------------------------------------------------------
(* Insertion-ordered dicts *)

DictKeys(d) == {d[i][1] : i \in 1..Len(d)}

DictGet(d, k) ==
  IF k \in DictKeys(d)
  THEN d[CHOOSE i \in 1..Len(d) : d[i][1] = k][2]
  ELSE None

DictSet(d, k, v) ==
  IF k \in DictKeys(d)
  THEN [i \in 1..Len(d) |-> IF d[i][1] = k THEN <<k, v>> ELSE d[i]]
  ELSE Append(d, <<k, v>>)

RECURSIVE DictUpdate(_, _)
DictUpdate(d, e) ==
  IF e = <<>> THEN d
  ELSE DictUpdate(DictSet(d, e[1][1], e[1][2]), Tail(e))

Min(x, y) == IF x < y THEN x ELSE y
Abs(x) == IF x < 0 THEN -x ELSE x

----------------------------------------------------------------------------
(* Files *)

NoMtimes == [f \in Modules |-> -1]

NoFile ==
  [kind |-> "none", cache_version |-> "", version |-> "", timestamp |-> 0,
   file_mtimes |-> NoMtimes, items |-> <<>>]

\* A document without a 'timestamp' entry: load_cache reads it as 0, the
\* epoch, which lies EpochDays before day 0 of the model's clock.
NoTimestamp == -1
EpochDays == 20000

CorruptFile == [NoFile EXCEPT !.kind = "corrupt"]
NonDictFile == [NoFile EXCEPT !.kind = "nondict"]
\* Bytes that are not UTF-8 text: reading the file raises UnicodeDecodeError.
UndecodableFile == [NoFile EXCEPT !.kind = "undecodable"]

\* The files of the package that exist on disk (mtime -1: removed).
OnDisk(f) == (f \in {"m1", "m2"} \/ (f = "m3" /\ hasSub)) /\ mtime[f] # -1

NoReport ==
  [loaded |-> FALSE, loadRaised |-> FALSE, scanned |-> FALSE,
   scanRaised |-> FALSE, saved |-> FALSE]

NoNested == [seen |-> FALSE, started |-> FALSE, len |-> 0]

\* pkg: discovery_package is set and not empty; scannable: it names the
\* plugin package (it has a __path__).
\* wraps / wrapper: the SecondaryRegistryDict the first declaration put in
\* the place of a plain secondary map, and its entries.
NoConfig ==
  [set |-> FALSE, pkg |-> FALSE, scannable |-> FALSE, recursive |-> FALSE,
   mgr |-> FALSE, wraps |-> FALSE, wrapper |-> <<>>]

NoResult == [some |-> FALSE, raised |-> FALSE, items |-> <<>>]

\* What a save was made under: the probe, the clock and the file mtimes.
NoSaved ==
  [done |-> FALSE, probe |-> "", now |-> 0, mtime |-> [f \in Modules |-> 0]]

\* cleared: clear_cache was called and no save has followed it.
NoHarness ==
  [items |-> <<>>, check_mtimes |-> FALSE, saved |-> NoSaved, res |-> NoResult,
   cleared |-> FALSE]

\* The threads of the process that read the store.  A thread is "idle"
\* before its read, "checked" once it has passed the guard of _discover,
\* in the "body" once it has set the flag, "done" when _discover returned.
Threads == {"t1", "t2"}
NoThread == "none"
\* early: the threads whose read returned while another thread had set the
\* flag and not yet finished the discovery body.
NoThreads ==
  [pc |-> [t \in Threads |-> "idle"], guarded |-> FALSE, lock |-> NoThread,
   early |-> {}]

Body(c) ==
  IF c \in PkgClasses THEN PkgBody(c) ELSE text[c]


----------------------------------------------------------------------------
(* The process as one record, so that handlers compose as functions.       *)
(* exc: an exception is propagating; inDisc: _discover is on the stack;    *)
(* regd: the registration the current declaration made; ret: a return     *)
(* value in flight.                                                        *)

\* What a raised exception says.  The ValueError of _handle_missing_key
\* names the class and the key attribute it lacks.
NoError == "none"
MissingKeyError == "ValueError: class must have the key attribute"
BaseError == "TypeError or NameError: the base is no class"

Proc ==
  [reg |-> registry, sec |-> secondary, cfg |-> config, disc |-> discovered,
   ka |-> keyAttr, sa |-> secAttr, imp |-> imported, file |-> cacheFile,
   latest |-> latest, runs |-> runs, report |-> report, nested |-> nested,
   exc |-> FALSE, err |-> NoError, inDisc |-> FALSE, regd |-> <<>>,
   ret |-> [some |-> FALSE, items |-> <<>>]]

----------------------------------------------------------------------------
(* Registration engine: AutoRegisterMeta *)

\* getattr(cls, config.key_attribute, None): the class's own attribute, else
\* the nearest ancestor's.
RECURSIVE KeyLookup(_, _)
KeyLookup(ka, c) ==
  IF c = None THEN None
  ELSE IF ka[c] \in Keys \cup {None} THEN ka[c]
  ELSE KeyLookup(ka, Parent(c))

\* getattr(cls, sec_reg.attr_name, None); the value set in the body of class
\* c is written c.
RECURSIVE SecLookup(_, _)
SecLookup(sa, c) ==
  IF c = None THEN None
  ELSE IF sa[c] THEN c
  ELSE SecLookup(sa, Parent(c))

GetRegistrationKey(ka, c) ==
  LET key == KeyLookup(ka, c)
  IN IF key # None THEN key
     ELSE IF prog.extractor THEN XKey(c)
     ELSE None

\* Mutant: the missing key is passed over whatever the policy says.
HandleMissingKey_AlwaysSkip(s, c) == [s EXCEPT !.ka[c] = Skipped]

\* The class statement yields None under the skip policy and raises
\* ValueError otherwise.
HandleMissingKey(s, c) ==
  IF prog.skip
  THEN [s EXCEPT !.ka[c] = Skipped]
  ELSE [s EXCEPT !.ka[c] = Undeclared, !.exc = TRUE,
                 !.err = MissingKeyError]

\* Mutant: the key is written back but the store is not.
RegisterClass_NoStore(s, c, key) ==
  [s EXCEPT !.ka[c] = key,
            !.latest[key] = c,
            !.regd = <<c, key>>]

\* _register_class: store the class, write the key back on it.
RegisterClass(s, c, key) ==
  [s EXCEPT !.reg = DictSet(@, key, c),
            !.ka[c] = key,
            !.latest[key] = c,
            !.regd = <<c, key>>]

\* The binding's own key-source attribute as the class bodies set it: X and
\* P set it to "b", no other class sets it.
SecKeyAttr(c) == IF c \in {"X", "P"} THEN "b" ELSE Unset

\* getattr(cls, sec_reg.key_source, None)
RECURSIVE SecKeyLookup(_)
SecKeyLookup(c) ==
  IF c = None THEN None
  ELSE IF SecKeyAttr(c) # Unset THEN SecKeyAttr(c)
  ELSE SecKeyLookup(Parent(c))

\* _register_secondary, lines 636-646: the key of the secondary entry.
SecondaryKey(c, key) ==
  IF prog.secKey = "primary" THEN key ELSE SecKeyLookup(c)

\* Mutant: a binding with its own key source is keyed by the primary key.
StoreSecondary_PrimaryKey(s, c, key, value) ==
  IF value = None THEN s
  ELSE [s EXCEPT !.sec = DictSet(@, key, value)]

\* Mutant: a binding that cannot be served makes the declaration fail.
StoreSecondary_Strict(s, c, key, value) ==
  IF value = None \/ SecondaryKey(c, key) = None
  THEN [s EXCEPT !.exc = TRUE, !.err = MissingKeyError]
  ELSE [s EXCEPT !.sec = DictSet(@, SecondaryKey(c, key), value)]

\* _register_secondary, lines 631-649: the write into the map the binding
\* of the root's __secondary_registries__ names.
StoreSecondary(s, c, key, value) ==
  IF value = None \/ SecondaryKey(c, key) = None THEN s
  ELSE [s EXCEPT !.sec = DictSet(@, SecondaryKey(c, key), value)]

\* One secondary binding.
RegisterSecondary(s, c, key) ==
  StoreSecondary(s, c, key, SecLookup(s.sa, c))

\* __new__, lines 453-486: a plain secondary map is replaced, in the config
\* bound to the store and in the module's globals, by a SecondaryRegistryDict
\* that starts as a copy of it.
WrappedCopy(sec) == IF prog.sec = "plain" THEN sec ELSE <<>>

\* First declaration under the config: a discovery_package left out is
\* inferred from the root's module (the application module, which is no
\* package), the scan mode is inferred from the package's sub-directories,
\* the config is bound to the store and the cache manager is created.
BindConfig ==
  [set |-> TRUE,
   pkg |-> prog.pkg # "empty",
   scannable |-> prog.pkg = "given",
   recursive |-> IF prog.pkg = "given" THEN prog.recursive \/ hasSub
                 ELSE prog.recursive,
   mgr |-> prog.cache /\ prog.pkg # "empty",
   wraps |-> prog.sec = "plain",
   wrapper |-> <<>>]

\* Mutant: only the missing parent exempts a type, abstract types register.
RegisterOrSkip_NoAbstract(s, c, key) ==
  IF Parent(c) = None THEN s
  ELSE IF key = None THEN HandleMissingKey(s, c)
  ELSE RegisterSecondary(RegisterClass(s, c, key), c, key)

\* AutoRegisterMeta.__new__, lines 490-512: eligibility, key, registration.
RegisterOrSkip(s, c, key) ==
  IF Parent(c) = None \/ Body(c).abstract THEN s
  ELSE IF key = None THEN HandleMissingKey(s, c)
  ELSE RegisterSecondary(RegisterClass(s, c, key), c, key)

\* AutoRegisterMeta.__new__, lines 410-488: the first declaration under the
\* config binds it to the store.
SetConfig(s) ==
  IF s.cfg.set THEN s
  ELSE [s EXCEPT !.cfg = [BindConfig EXCEPT !.wrapper = WrappedCopy(s.sec)]]

\* AutoRegisterMeta.__new__, line 402: the class object with its own body.
CreateClass(s, c) ==
  [s EXCEPT !.ka[c] = Body(c).key, !.sa[c] = Body(c).hasSec]

Configured(s, c) == RegisterOrSkip(s, c, GetRegistrationKey(s.ka, c))

\* AutoRegisterMeta.__new__ for the class statement of c.  A base that is
\* unbound or bound to None makes the statement raise.
DeclareClass(s, c) ==
  IF Parent(c) # None /\ s.ka[Parent(c)] \in {Undeclared, Skipped}
  THEN [s EXCEPT !.exc = TRUE, !.err = BaseError]
  ELSE Configured(SetConfig(CreateClass(s, c)), c)

----------------------------------------------------------------------------
(* Cache layer: RegistryCacheManager with the plugin-class serializers *)

CoreCheckMtimes == TRUE   \* core.py: CacheConfig(check_mtimes=True)

\* serialize_plugin_class: the storable identity of a class.
SerializePluginClass(c) == [module |-> ModuleOf(c), class_name |-> c]

\* Item values: "unser" makes the serializer raise, "nonjson" serializes to
\* something json.dump cannot encode, "undeser" makes the deserializer raise.
HarnessValues == {"v", "unser", "nonjson", "undeser"}

\* serializer=lambda x: {'value': x}
HSer(v) == [value |-> v]
HSerOk(v) == v # "unser"
HJsonOk(d) == d.value # "nonjson"

\* deserializer=lambda x: x['value']
HDeser(d) == d.value
HDeserOk(d) == d.value # "undeser"

\* self.serializer: serialize_plugin_class for a store's manager ("plugin"),
\* the caller's own for a manager used directly ("caller").
Serializer(kind, v) ==
  IF kind = "plugin" THEN SerializePluginClass(v) ELSE HSer(v)

SerializerOk(kind, v) == kind = "plugin" \/ HSerOk(v)

\* Whether json.dump can encode the serialized value.
JsonEncodable(kind, d) == kind = "plugin" \/ HJsonOk(d)

\* get_package_file_mtimes: every file of the package tree on disk.
PackageFileMtimes == [f \in Modules |-> IF OnDisk(f) THEN mtime[f] ELSE -1]

\* Mutant: a tracked file that is gone is passed over.
ValidateMtimes_SkipsMissing(cached) ==
  \A f \in Modules :
    (cached[f] # -1 /\ OnDisk(f)) =>
      ~(Abs(mtime[f] - cached[f]) > MtimeTolerance)

\* _validate_mtimes: every tracked file exists and is within the tolerance.
ValidateMtimes(cached) ==
  \A f \in Modules :
    cached[f] # -1 =>
      /\ OnDisk(f)
      /\ ~(Abs(mtime[f] - cached[f]) > MtimeTolerance)

\* Mutant: a document without timestamp counts as written just now.
CacheAge_MissingIsNow(f) ==
  IF f.timestamp = NoTimestamp THEN 0 ELSE now - f.timestamp

\* load_cache, lines 134-136: the age of the document in days.
CacheAge(f) ==
  IF f.timestamp = NoTimestamp THEN now + EpochDays ELSE now - f.timestamp

\* A snapshot left on disk by a release with another format-version.
OldFormatFile(kind) ==
  [kind |-> "snapshot", cache_version |-> "0.9", version |-> "1.0",
   timestamp |-> 0, file_mtimes |-> NoMtimes,
   items |-> << <<"a", Serializer(kind, IF kind = "plugin" THEN "P" ELSE "v")>> >>]

\* Mutant: the two version comparisons are missing.
LoadVerdict_NoVersionCheck(f, check) ==
  IF f.kind = "none" THEN "absent"
  ELSE IF f.kind = "corrupt" THEN "corrupt"
  ELSE IF f.kind \in {"nondict", "undecodable"} THEN "raise"
  ELSE IF CacheAge(f) > MaxAgeDays THEN "age"
  ELSE IF check /\ f.file_mtimes # NoMtimes /\ ~ValidateMtimes(f.file_mtimes)
    THEN "mtimes"
  ELSE "valid"

\* Mutant: a snapshot exactly max_age_days old is already too old.
LoadVerdict_AgeInclusive(f, check) ==
  IF f.kind = "none" THEN "absent"
  ELSE IF f.kind = "corrupt" THEN "corrupt"
  ELSE IF f.kind \in {"nondict", "undecodable"} THEN "raise"
  ELSE IF f.cache_version # FormatVersion THEN "format"
  ELSE IF f.version # probe THEN "version"
  ELSE IF CacheAge(f) >= MaxAgeDays THEN "age"
  ELSE IF check /\ f.file_mtimes # NoMtimes /\ ~ValidateMtimes(f.file_mtimes)
    THEN "mtimes"
  ELSE "valid"

\* The checks of load_cache that come before deserialization.
LoadVerdict(f, check) ==
  IF f.kind = "none" THEN "absent"
  ELSE IF f.kind = "corrupt" THEN "corrupt"
  ELSE IF f.kind \in {"nondict", "undecodable"} THEN "raise"
  ELSE IF f.cache_version # FormatVersion THEN "format"
  ELSE IF f.version # probe THEN "version"
  ELSE IF CacheAge(f) > MaxAgeDays THEN "age"
  ELSE IF check /\ f.file_mtimes # NoMtimes /\ ~ValidateMtimes(f.file_mtimes)
    THEN "mtimes"
  ELSE "valid"

\* json.dump writes a dict key that is a number as its decimal string; "#1"
\* stands for the integer key 1.
JsonKey(k) == IF k = "#1" THEN "1" ELSE k

\* The document save_cache writes for already serialized items.
Snapshot(serialized, file_mtimes) ==
  [kind |-> "snapshot", cache_version |-> FormatVersion, version |-> probe,
   timestamp |-> now, file_mtimes |-> file_mtimes, items |-> serialized]

\* Mutant: the first failing serializer call ends the loop for all entries.
SerializeItems_AbortOnFailure(items, kind) ==
  IF \E i \in 1..Len(items) : ~SerializerOk(kind, items[i][2])
  THEN <<>>
  ELSE [i \in 1..Len(items) |->
          <<JsonKey(items[i][1]), Serializer(kind, items[i][2])>>]

\* The serialization loop of save_cache: an entry whose serialization fails
\* is left out.
SerializeItems(items, kind) ==
  LET kept == SelectSeq(items, LAMBDA it : SerializerOk(kind, it[2]))
  IN [i \in 1..Len(kept) |->
        <<JsonKey(kept[i][1]), Serializer(kind, kept[i][2])>>]

\* RegistryCacheManager.save_cache: the file it leaves on disk.  A document
\* json.dump cannot encode leaves a truncated file behind.
SaveCache(items, file_mtimes, kind) ==
  LET serialized == SerializeItems(items, kind)
  IN IF \A i \in 1..Len(serialized) : JsonEncodable(kind, serialized[i][2])
     THEN Snapshot(serialized, file_mtimes)
     ELSE CorruptFile

\* Mutant: an entry whose deserialization fails is left out of the map.
LoadItems_Partial(f, check) ==
  IF LoadVerdict(f, check) # "valid"
  THEN [NoResult EXCEPT !.raised = (LoadVerdict(f, check) = "raise")]
  ELSE LET kept == SelectSeq(f.items, LAMBDA e : HDeserOk(e[2]))
       IN [some |-> TRUE, raised |-> FALSE,
           items |-> [i \in 1..Len(kept) |->
                        <<kept[i][1], HDeser(kept[i][2])>>]]

\* RegistryCacheManager.load_cache with the caller's deserializer: the map it
\* returns, or nothing.
LoadItems(f, check) ==
  IF LoadVerdict(f, check) # "valid"
  THEN [NoResult EXCEPT !.raised = (LoadVerdict(f, check) = "raise")]
  ELSE IF \E i \in 1..Len(f.items) : ~HDeserOk(f.items[i][2])
    THEN NoResult
  ELSE [some |-> TRUE, raised |-> FALSE,
        items |-> [i \in 1..Len(f.items) |->
                     <<f.items[i][1], HDeser(f.items[i][2])>>]]

\* load_cache unlinks a file that is not JSON.
FileAfterLoad(f) == IF f.kind = "corrupt" THEN NoFile ELSE f

----------------------------------------------------------------------------
(* Imports, the scanner and discovery.  These call each other: importing a *)
(* module declares its classes and may read the store, a read may start    *)
(* discovery, discovery imports modules.                                   *)

RECURSIVE ImportModule(_, _)
RECURSIVE ExecStmts(_, _)
RECURSIVE Discover(_)
RECURSIVE DeserializeItems(_, _, _)

\* What a read issued while _discover is on the stack observed.
Observe(s, r) ==
  IF s.inDisc
  THEN [r EXCEPT !.nested = [seen |-> TRUE, started |-> r.runs # s.runs,
                             len |-> Len(r.reg)]]
  ELSE r

\* len(registry) in the body of a module that is being imported.
NestedRead(s) == Observe(s, Discover(s))

ExecStmt(s, st) ==
  CASE st[1] = "class" -> DeclareClass(s, st[2])
    [] st[1] = "read"  -> NestedRead(s)
    [] OTHER           -> [s EXCEPT !.exc = TRUE]

ExecStmts(s, stmts) ==
  IF stmts = <<>> \/ s.exc THEN s
  ELSE ExecStmts(ExecStmt(s, Head(stmts)), Tail(stmts))

\* A module whose body raised is dropped from sys.modules.
Imported(r, m) ==
  IF r.exc THEN [r EXCEPT !.imp = @ \ {m}] ELSE r

\* importlib.import_module(m): a module in sys.modules is not run again.
ImportModule(s, m) ==
  IF ~OnDisk(m) THEN [s EXCEPT !.exc = TRUE]
  ELSE IF m \in s.imp THEN s
  ELSE Imported(ExecStmts([s EXCEPT !.imp = @ \cup {m}], Stmts(m)), m)

\* getattr(module, class_name)
ModuleAttr(s, d) ==
  IF s.exc THEN s
  ELSE IF /\ ModuleOf(d.class_name) = d.module
          /\ IsModuleAttr(d.class_name)
          /\ s.ka[d.class_name] # Undeclared
    THEN [s EXCEPT !.ret =
            [some |-> TRUE,
             items |-> << IF s.ka[d.class_name] = Skipped THEN None
                          ELSE d.class_name >>]]
  ELSE [s EXCEPT !.exc = TRUE]

\* deserialize_plugin_class: import the module, look the name up in it.
DeserializePluginClass(s, d) ==
  IF d.module = ForeignModule
  THEN [s EXCEPT !.ret = [some |-> TRUE, items |-> <<d.class_name>>]]
  ELSE ModuleAttr(IF d.module = AppModule THEN s
                  ELSE ImportModule(s, d.module), d)

\* The deserialization loop of load_cache: one failure voids the whole load.
Deserialized(r, items, acc) ==
  IF r.exc
  THEN [r EXCEPT !.exc = FALSE, !.ret = [some |-> FALSE, items |-> <<>>]]
  ELSE DeserializeItems(r, Tail(items),
                        DictSet(acc, items[1][1], r.ret.items[1]))

DeserializeItems(s, items, acc) ==
  IF items = <<>> THEN [s EXCEPT !.ret = [some |-> TRUE, items |-> acc]]
  ELSE Deserialized(DeserializePluginClass(s, items[1][2]), items, acc)

Absent(s) == [s EXCEPT !.ret = [some |-> FALSE, items |-> <<>>]]

\* RegistryCacheManager.load_cache
LoadCacheAs(s, verdict) ==
  CASE verdict = "valid"   -> DeserializeItems(s, s.file.items, <<>>)
    [] verdict = "corrupt" -> [Absent(s) EXCEPT !.file = NoFile]
    [] verdict = "raise"   -> [Absent(s) EXCEPT !.exc = TRUE]
    [] OTHER               -> Absent(s)

LoadCache(s) == LoadCacheAs(s, LoadVerdict(s.file, CoreCheckMtimes))

\* discover_registry_classes / _recursive, the loop body: a failing module
\* is logged and the scan goes on.
ScanModule(s, m) == [ImportModule(s, m) EXCEPT !.exc = FALSE]

RECURSIVE ScanModules(_, _)
ScanModules(s, mods) ==
  IF mods = <<>> THEN s
  ELSE ScanModules(ScanModule(s, Head(mods)), Tail(mods))

\* discover_registry_classes: direct child modules, packages skipped.
FlatModules == TopModules

\* discover_registry_classes_recursive: the whole subtree.
RecursiveModules == IF hasSub THEN TopModules \o SubModules ELSE TopModules

\* A caller-supplied discovery function that fails part-way.
RaisingScan(s) == [ScanModule(s, Head(TopModules)) EXCEPT !.exc = TRUE]

Called(s) == [s EXCEPT !.report.scanned = TRUE]

\* _discover, lines 209-225: the scan, by the way the program wires it.
RunScanner(s) ==
  CASE ~s.cfg.scannable \/ prog.scanner = "host_missing" ->
         [s EXCEPT !.exc = TRUE]
    [] prog.scanner = "host" ->
         ScanModules(Called(s), IF s.cfg.recursive THEN RecursiveModules
                                ELSE FlatModules)
    [] prog.scanner = "custom_flat" -> ScanModules(Called(s), FlatModules)
    [] OTHER -> RaisingScan(Called(s))

\* _discover, lines 196-205: what is done with load_cache's outcome.
Loaded(r) ==
  IF r.exc
  THEN [r EXCEPT !.exc = FALSE, !.report.loadRaised = TRUE]
  ELSE IF r.ret.some
    THEN [r EXCEPT !.reg = DictUpdate(@, r.ret.items),
                   !.report.loaded = TRUE]
  ELSE r

\* _discover, lines 193-205: the cache attempt.
TryLoad(s) == IF s.cfg.mgr THEN Loaded(LoadCache(s)) ELSE s

\* _discover, lines 229-238: the snapshot after a scan.
TrySave(s) ==
  [s EXCEPT !.file = SaveCache(s.reg, PackageFileMtimes, "plugin"),
            !.report.saved = TRUE]

\* Mutant: a scan that raised is rolled back, the store is emptied.
Scanned_Rollback(r) ==
  IF r.exc
  THEN [r EXCEPT !.exc = FALSE, !.report.scanRaised = TRUE, !.reg = <<>>]
  ELSE IF r.cfg.mgr THEN TrySave(r)
  ELSE r

\* Mutant: no handler around the scan, its exception reaches the reader.
Scanned_Propagate(r) ==
  IF r.exc
  THEN [r EXCEPT !.report.scanRaised = TRUE]
  ELSE IF r.cfg.mgr THEN TrySave(r)
  ELSE r

\* Mutant: the snapshot is written in a finally clause, also after a raise.
Scanned_SaveAlways(r) ==
  IF r.cfg.mgr
  THEN TrySave([r EXCEPT !.exc = FALSE, !.report.scanRaised = r.exc])
  ELSE [r EXCEPT !.exc = FALSE, !.report.scanRaised = r.exc]

\* _discover, lines 227-241: after the scan returned or raised.
Scanned(r) ==
  IF r.exc
  THEN [r EXCEPT !.exc = FALSE, !.report.scanRaised = TRUE]
  ELSE IF r.cfg.mgr THEN TrySave(r)
  ELSE r

\* _discover, lines 207-241: the full discovery.
FullDiscovery(s) == Scanned(RunScanner(s))

\* Mutant: the return after the bulk-insert is missing.
AfterLoad_AlwaysScan(l) == FullDiscovery(l)

\* _discover, lines 203-207: a cache hit returns, anything else scans.
AfterLoad(l) == IF l.report.loaded THEN l ELSE FullDiscovery(l)

\* _discover, line 191: the one-shot flag is set before anything else.
MarkDiscovered(s) ==
  [s EXCEPT !.disc = TRUE,
            !.runs = Min(@ + 1, MaxRuns),
            !.inDisc = TRUE,
            !.report = NoReport]

Leave(s, r) == [r EXCEPT !.inDisc = s.inDisc]

\* Mutant: the guard forgets the one-shot flag.
ShouldDiscover_NoFlag(s) == s.cfg.set /\ s.cfg.pkg

\* _discover, line 189: the guard.
ShouldDiscover(s) == ~(s.disc \/ ~s.cfg.set \/ ~s.cfg.pkg)

\* LazyDiscoveryDict._discover
Discover(s) ==
  IF ShouldDiscover(s)
  THEN Leave(s, AfterLoad(TryLoad(MarkDiscovered(s))))
  ELSE s

----------------------------------------------------------------------------
(* Actions *)

ReadOps ==
  {"getitem", "contains", "iter", "len", "keys", "values", "items", "get"}
KeyedOps == {"getitem", "contains", "get"}

NoLast ==
  [op |-> "none", store |-> "primary", cls |-> None, key |-> "",
   ran |-> FALSE, raised |-> FALSE,
   err |-> NoError, regd |-> <<>>, val |-> "", has |-> FALSE, len |-> 0,
   keys |-> <<>>]

RECURSIVE KeySeq(_)
KeySeq(d) == IF d = <<>> THEN <<>> ELSE <<d[1][1]>> \o KeySeq(Tail(d))

\* The process state after a handler returned r.
Install(r) ==
  /\ registry' = r.reg
  /\ secondary' = r.sec
  /\ config' = r.cfg
  /\ discovered' = r.disc
  /\ keyAttr' = r.ka
  /\ secAttr' = r.sa
  /\ imported' = r.imp
  /\ cacheFile' = r.file
  /\ latest' = r.latest
  /\ runs' = r.runs
  /\ report' = r.report
  /\ nested' = r.nested

Declared(r, c) ==
  /\ Install(r)
  /\ last' = [NoLast EXCEPT !.op = "declare", !.cls = c,
                            !.raised = r.exc, !.err = r.err,
                            !.regd = r.regd]

\* Mutant: the class statement looks the store up (a duplicate check) before
\* it registers, which is a read.
Declare_ChecksStore(c) ==
  /\ keyAttr[c] = Undeclared
  /\ c # Root => keyAttr[Parent(c)] # Undeclared
  /\ Declared(DeclareClass(Discover(Proc), c), c)
  /\ UNCHANGED <<prog, text, hasSub, mtime, now, probe, restarts, harness,
                 threads, scan, extract, auto>>

\* The application executes the class statement of the root or of one of
\* its own classes.
Declare(c) ==
  /\ keyAttr[c] = Undeclared
  /\ c # Root => keyAttr[Parent(c)] # Undeclared
  /\ Declared(DeclareClass(Proc, c), c)
  /\ UNCHANGED <<prog, text, hasSub, mtime, now, probe, restarts, harness,
                 threads, scan, extract, auto>>

ImportedDirect(r) ==
  /\ Install(r)
  /\ last' = [NoLast EXCEPT !.op = "import", !.raised = r.exc]

\* The application imports a module of the package itself.
ImportDirect(m) ==
  /\ config.set
  /\ OnDisk(m)
  /\ m \notin imported
  /\ ImportedDirect(ImportModule(Proc, m))
  /\ UNCHANGED <<prog, text, hasSub, mtime, now, probe, restarts, harness,
                 threads, scan, extract, auto>>

\* dict.__getitem__ / __contains__ / __len__ / ... on the store as it is
\* once _discover has returned r.
Answered(r, op, k) ==
  /\ Install(r)
  /\ last' = [NoLast EXCEPT
                !.op = op, !.key = k,
                !.ran = (r.runs # runs),
                !.raised = r.exc,
                !.regd = IF last.op = "declare" THEN last.regd ELSE <<>>,
                !.val = IF k \in DictKeys(r.reg) THEN DictGet(r.reg, k)
                        ELSE IF op = "getitem" THEN "KeyError"
                        ELSE None,
                !.has = (k \in DictKeys(r.reg)),
                !.len = Len(r.reg),
                !.keys = KeySeq(r.reg)]

\* Mutant: get() goes straight to the dict and skips _discover.
Read_GetSkipsDiscover(op, k) ==
  /\ Answered(IF op = "get" THEN Proc ELSE Discover(Proc), op, k)
  /\ UNCHANGED <<prog, text, hasSub, mtime, now, probe, restarts, harness,
                 threads, scan, extract, auto>>

\* A read of the primary store: self._discover(), then the dict operation.
Read(op, k) ==
  /\ Answered(Discover(Proc), op, k)
  /\ UNCHANGED <<prog, text, hasSub, mtime, now, probe, restarts, harness,
                 threads, scan, extract, auto>>

\* The entries a read of the secondary store answers from: those of the
\* SecondaryRegistryDict itself, which is the wrapper when the binding named
\* a plain map.
SecondaryStore(r) == IF r.cfg.wraps THEN r.cfg.wrapper ELSE r.sec

\* dict.__getitem__ / ... on the SecondaryRegistryDict once
\* _ensure_discovered has returned r.
SecAnswered(r, store, op, k) ==
  /\ Install(r)
  /\ last' = [NoLast EXCEPT
                !.op = op, !.store = "secondary", !.key = k,
                !.ran = (r.runs # runs),
                !.raised = r.exc,
                !.val = IF k \in DictKeys(store) THEN DictGet(store, k)
                        ELSE IF op = "getitem" THEN "KeyError"
                        ELSE None,
                !.has = (k \in DictKeys(store)),
                !.len = Len(store),
                !.keys = KeySeq(store)]

\* SecondaryRegistryDict._ensure_discovered
EnsureDiscovered(s) == Discover(s)

\* Mutant: the secondary store answers without looking at the primary.
SecRead_NoDiscovery(op, k) ==
  /\ prog.sec = "lazy" \/ config.wraps
  /\ SecAnswered(Proc, SecondaryStore(Proc), op, k)
  /\ UNCHANGED <<prog, text, hasSub, mtime, now, probe, restarts, harness,
                 threads, scan, extract, auto>>

\* A read of the secondary store: self._ensure_discovered(), then the dict
\* operation on its own entries.
SecRead(op, k) ==
  /\ prog.sec = "lazy" \/ config.wraps
  /\ SecAnswered(EnsureDiscovered(Proc),
                 SecondaryStore(EnsureDiscovered(Proc)), op, k)
  /\ UNCHANGED <<prog, text, hasSub, mtime, now, probe, restarts, harness,
                 threads, scan, extract, auto>>

ThreadFrame ==
  UNCHANGED <<prog, text, hasSub, mtime, now, probe, restarts, harness,
              scan, extract, auto>>

\* _discover, line 189, in thread t: the guard is evaluated.  A program
\* that guards its reads takes its lock around the call of _discover.
TCheck(t) ==
  /\ threads.pc[t] = "idle"
  /\ threads.guarded => threads.lock = NoThread
  /\ threads' = [threads EXCEPT
                   !.pc[t] = IF ShouldDiscover(Proc) THEN "checked"
                             ELSE "done",
                   !.lock = IF threads.guarded /\ ShouldDiscover(Proc)
                            THEN t ELSE @,
                   !.early = IF /\ ~ShouldDiscover(Proc)
                                /\ \E u \in Threads : threads.pc[u] = "body"
                             THEN @ \cup {t} ELSE @]
  /\ last' = [NoLast EXCEPT !.op = "check"]
  /\ UNCHANGED <<registry, secondary, config, discovered, keyAttr, secAttr,
                 imported, cacheFile, latest, runs, report, nested>>
  /\ ThreadFrame

\* _discover, line 191, in thread t: the flag is set.
TSet(t) ==
  /\ threads.pc[t] = "checked"
  /\ threads' = [threads EXCEPT !.pc[t] = "body"]
  /\ Install(MarkDiscovered(Proc))
  /\ last' = [NoLast EXCEPT !.op = "set"]
  /\ ThreadFrame

\* _discover, lines 193-241, in thread t: the cache attempt and the scan;
\* the call returns and the caller's lock, if any, is released.
TBody(t) ==
  /\ threads.pc[t] = "body"
  /\ threads' = [threads EXCEPT !.pc[t] = "done", !.lock = NoThread]
  /\ Install(Leave(Proc, AfterLoad(TryLoad([Proc EXCEPT !.inDisc = TRUE]))))
  /\ last' = [NoLast EXCEPT !.op = "body"]
  /\ ThreadFrame

\* The process ends and the same program starts again on the same disk.
Restart ==
  /\ restarts < MaxRestarts
  /\ restarts' = restarts + 1
  /\ registry' = <<>>
  /\ secondary' = <<>>
  /\ config' = NoConfig
  /\ discovered' = FALSE
  /\ keyAttr' = [c \in ClassIds |-> Undeclared]
  /\ secAttr' = [c \in ClassIds |-> FALSE]
  /\ imported' = {}
  /\ latest' = [k \in Keys |-> None]
  /\ runs' = 0
  /\ report' = NoReport
  /\ nested' = NoNested
  /\ last' = [NoLast EXCEPT !.op = "restart"]
  /\ UNCHANGED <<prog, text, hasSub, cacheFile, mtime, now, probe, harness,
                 threads, scan, extract, auto>>

EnvUnchanged ==
  UNCHANGED <<prog, text, hasSub, registry, secondary, config, discovered,
              keyAttr, secAttr, imported, restarts, latest, runs, report,
              nested, harness, threads, scan, extract, auto>>

\* The installed package is upgraded: the version probe changes.
Upgrade ==
  /\ probe = "1.0"
  /\ probe' = "2.0"
  /\ last' = [NoLast EXCEPT !.op = "env"]
  /\ UNCHANGED <<cacheFile, mtime, now>>
  /\ EnvUnchanged

\* Time passes.
Tick(t) ==
  /\ t > now
  /\ now' = t
  /\ last' = [NoLast EXCEPT !.op = "env"]
  /\ UNCHANGED <<cacheFile, mtime, probe>>
  /\ EnvUnchanged

\* A file of the package is removed.
Remove(f) ==
  /\ OnDisk(f)
  /\ mtime' = [mtime EXCEPT ![f] = -1]
  /\ last' = [NoLast EXCEPT !.op = "env"]
  /\ UNCHANGED <<cacheFile, now, probe>>
  /\ EnvUnchanged

\* A module file is added to the package.
Create(f) ==
  /\ f \in {"m1", "m2"} /\ ~OnDisk(f)
  /\ mtime' = [mtime EXCEPT ![f] = 0]
  /\ last' = [NoLast EXCEPT !.op = "env"]
  /\ UNCHANGED <<cacheFile, now, probe>>
  /\ EnvUnchanged

\* A file of the package is rewritten.
Touch(f, d) ==
  /\ OnDisk(f)
  /\ mtime[f] + d <= MaxMtime
  /\ mtime' = [mtime EXCEPT ![f] = @ + d]
  /\ last' = [NoLast EXCEPT !.op = "env"]
  /\ UNCHANGED <<cacheFile, now, probe>>
  /\ EnvUnchanged

----------------------------------------------------------------------------
(* A caller that uses the scanner directly (tests/test_discovery.py).  The  *)
(* package "pk" holds the modules m1 and m2 and the sub-packages bad (with  *)
(* the module b1) and sub (with the module s1 and the sub-package er, which *)
(* holds the module d1).                                                    *)

ScanUnits == {"bad", "b1", "m1", "m2", "sub", "er", "d1", "s1"}
ScanPackages == {"bad", "sub", "er"}

\* ispkg, as pkgutil reports it.
IsPkg(u) == u \in ScanPackages

\* The package a unit lies in; None for the direct children of pk.
ScanParent(u) ==
  CASE u = "b1" -> "bad"
    [] u \in {"er", "s1"} -> "sub"
    [] u = "d1" -> "er"
    [] OTHER -> None

\* pkgutil.iter_modules(path, prefix): the direct children of a package,
\* sorted by name.
IterModules(p) ==
  CASE p = None -> <<"bad", "m1", "m2", "sub">>
    [] p = "bad" -> <<"b1">>
    [] p = "sub" -> <<"er", "s1">>
    [] p = "er" -> <<"d1">>
    [] OTHER -> <<>>

\* Names are sequences of characters, so that 'excluded in module_name' is
\* the substring test of the code.
Spell(u) ==
  CASE u = "bad" -> <<"b", "a", "d">>
    [] u = "b1" -> <<"b", "1">>
    [] u = "m1" -> <<"m", "1">>
    [] u = "m2" -> <<"m", "2">>
    [] u = "sub" -> <<"s", "u", "b">>
    [] u = "er" -> <<"e", "r">>
    [] u = "d1" -> <<"d", "1">>
    [] OTHER -> <<"s", "1">>

\* package_prefix: "pk."
PackagePrefix == <<"p", "k", ".">>

\* The dotted name the scan sees: the prefix, the packages, the unit.
RECURSIVE ModuleName(_)
ModuleName(u) ==
  IF ScanParent(u) = None THEN PackagePrefix \o Spell(u)
  ELSE ModuleName(ScanParent(u)) \o <<".">> \o Spell(u)

\* x in n, for strings.
Contains(n, x) ==
  \E i \in 0..(Len(n) - Len(x)) : SubSeq(n, i + 1, i + Len(x)) = x

\* any(excluded in module_name for excluded in exclude_modules)
AnyExcluded(ex, n) == \E x \in ex : Contains(n, x)

\* exclude_modules as the caller passes it.
ExcludeSets == {{}, {<<"m", "1">>}, {<<"s", "u", "b">>}, {<<"b">>}}

\* The classes of the package and the base contract.  N is no subclass of
\* the base; I is defined in the __init__ of sub.
BaseClass == "Base"
ScanClasses == {"Base", "A", "N", "B", "K", "I", "D", "S"}

\* cls.__module__; the base contract is defined outside the package.
DefinedIn(c) ==
  CASE c \in {"A", "N"} -> "m1"
    [] c = "B" -> "m2"
    [] c = "K" -> "b1"
    [] c = "I" -> "sub"
    [] c = "D" -> "d1"
    [] c = "S" -> "s1"
    [] OTHER -> None

\* issubclass(c, base_class)
IsSubclass(c) == c # "N"

\* validation_func: none, or one that rejects B.
ValidationFuncs == {"none", "reject_B"}
Validates(v, c) == v = "none" \/ c # "B"

\* How the body of a module or of a package's __init__ ends: it runs
\* through, raises ImportError, or raises another exception.
ScanHealths == {"ok", "import_error", "error"}
Unhealthy == {"bad", "m2"}

NoCall ==
  [mode |-> "none", exclude |-> {}, validation |-> "none", skip |-> TRUE]

\* alias: m1 binds its class A under a second name (Alias = A).
\* modules: the units in sys.modules.
NoScan ==
  [alias |-> FALSE, health |-> [u \in Unhealthy |-> "ok"], modules |-> {},
   call |-> NoCall, result |-> <<>>, raised |-> FALSE]

Health(u) == IF u \in Unhealthy THEN scan.health[u] ELSE "ok"

\* inspect.getmembers(module, inspect.isclass) and dir(module): the values
\* of the class-valued attributes, in the order of the attribute names
\* (m1: A, Alias, Base, N; m2 imports A from m1).
Members(u) ==
  CASE u = "m1" -> IF scan.alias THEN <<"A", "A", "Base", "N">>
                   ELSE <<"A", "Base", "N">>
    [] u = "m2" -> <<"A", "B", "Base">>
    [] u = "b1" -> <<"Base", "K">>
    [] u = "sub" -> <<"Base", "I">>
    [] u = "d1" -> <<"Base", "D">>
    [] u = "s1" -> <<"Base", "S">>
    [] OTHER -> <<>>

\* The body of unit u runs: m2 imports m1 first; a body that raises leaves
\* its module out of sys.modules.
Executed(mods, u) ==
  IF Health(u) = "ok"
  THEN [mods |-> mods \cup {u} \cup (IF u = "m2" THEN {"m1"} ELSE {}),
        exc |-> "none"]
  ELSE [mods |-> mods \cup (IF u = "m2" THEN {"m1"} ELSE {}),
        exc |-> Health(u)]

\* importlib.import_module(name): the packages above the unit are imported
\* first; a unit in sys.modules is not run again.
RECURSIVE ImportUnit(_, _)
ImportedAbove(above, u) ==
  IF above.exc # "none" THEN above ELSE Executed(above.mods, u)

ImportUnit(mods, u) ==
  IF u \in mods THEN [mods |-> mods, exc |-> "none"]
  ELSE IF ScanParent(u) = None THEN Executed(mods, u)
  ELSE ImportedAbove(ImportUnit(mods, ScanParent(u)), u)

\* The filter of the inner loop; own: the flat scan's test
\* obj.__module__ == module_name.
Accepts(u, v, own, c) ==
  /\ IsSubclass(c)
  /\ c # BaseClass
  /\ own => DefinedIn(c) = u
  /\ Validates(v, c)

Collect(u, v, own) == SelectSeq(Members(u), LAMBDA c : Accepts(u, v, own, c))

NoFound == [mods |-> {}, result |-> <<>>, raised |-> FALSE]

\* The try block of the loop body: ImportError and every other Exception
\* are caught and the loop goes on.
ScannedUnit(acc, u, v, own, r) ==
  IF r.exc # "none" THEN [acc EXCEPT !.mods = r.mods]
  ELSE [acc EXCEPT !.mods = r.mods, !.result = @ \o Collect(u, v, own)]

\* discover_registry_classes, one round of the loop.
FlatUnit(acc, u, ex, v, skip) ==
  IF IsPkg(u) /\ skip THEN acc
  ELSE IF AnyExcluded(ex, ModuleName(u)) THEN acc
  ELSE ScannedUnit(acc, u, v, TRUE, ImportUnit(acc.mods, u))

RECURSIVE FlatUnits(_, _, _, _, _)
FlatUnits(acc, units, ex, v, skip) ==
  IF units = <<>> THEN acc
  ELSE FlatUnits(FlatUnit(acc, Head(units), ex, v, skip), Tail(units),
                 ex, v, skip)

\* discover_registry_classes(pk.__path__, "pk.", Base, ex, v, skip)
DiscoverRegistryClasses(mods, ex, v, skip) ==
  FlatUnits([NoFound EXCEPT !.mods = mods], IterModules(None), ex, v, skip)

\* discover_registry_classes_recursive over pkgutil.walk_packages: the
\* generator yields a package, the loop body passes it over, and the
\* generator then imports the package to list its children.  It swallows an
\* ImportError of that import and lets every other exception out, through
\* the for statement and out of the scan.
RECURSIVE WalkUnits(_, _, _, _)
Entered(acc, u, ex, v, r) ==
  IF r.exc = "import_error" THEN [acc EXCEPT !.mods = r.mods]
  ELSE IF r.exc = "error"
    THEN [acc EXCEPT !.mods = r.mods, !.result = <<>>, !.raised = TRUE]
  ELSE WalkUnits([acc EXCEPT !.mods = r.mods], IterModules(u), ex, v)

\* discover_registry_classes_recursive, one round of the loop.
WalkUnit(acc, u, ex, v) ==
  IF IsPkg(u) THEN Entered(acc, u, ex, v, ImportUnit(acc.mods, u))
  ELSE IF AnyExcluded(ex, ModuleName(u)) THEN acc
  ELSE ScannedUnit(acc, u, v, FALSE, ImportUnit(acc.mods, u))

WalkUnits(acc, units, ex, v) ==
  IF acc.raised \/ units = <<>> THEN acc
  ELSE WalkUnits(WalkUnit(acc, Head(units), ex, v), Tail(units), ex, v)

\* discover_registry_classes_recursive(pk.__path__, "pk.", Base, ex, v)
DiscoverRegistryClassesRecursive(mods, ex, v) ==
  WalkUnits([NoFound EXCEPT !.mods = mods], IterModules(None), ex, v)

ScanFrame ==
  UNCHANGED <<prog, text, hasSub, registry, secondary, config, discovered,
              keyAttr, secAttr, imported, cacheFile, mtime, now, probe,
              restarts, latest, runs, report, nested, last, harness,
              threads, extract, auto>>

Returned(call, r) ==
  [scan EXCEPT !.call = call, !.modules = r.mods, !.result = r.result,
               !.raised = r.raised]

\* The caller runs the flat scan.
ScanFlat(ex, v, skip) ==
  /\ scan' = Returned([mode |-> "flat", exclude |-> ex, validation |-> v,
                       skip |-> skip],
                      DiscoverRegistryClasses(scan.modules, ex, v, skip))
  /\ ScanFrame

\* The caller runs the recursive scan.
ScanRecursive(ex, v) ==
  /\ scan' = Returned([mode |-> "recursive", exclude |-> ex,
                       validation |-> v, skip |-> TRUE],
                      DiscoverRegistryClassesRecursive(scan.modules, ex, v))
  /\ ScanFrame

\* A new process: sys.modules holds nothing of the package.
ScanRestart ==
  /\ scan.call # NoCall
  /\ scan' = [scan EXCEPT !.modules = {}, !.call = NoCall, !.result = <<>>,
                          !.raised = FALSE]
  /\ ScanFrame

----------------------------------------------------------------------------
(* A caller that builds a suffix extractor and applies it to a type name    *)
(* (tests/test_core.py, TestSuffixExtractors).  Strings are sequences of    *)
(* characters.                                                             *)

MaxNameLen == 3           \* type names explored: 1..MaxNameLen characters
MaxSuffixLen == 2         \* suffixes explored: 0..MaxSuffixLen characters

NameChars == {"H", "h", "X", "x"}

RECURSIVE StringsOf(_)
StringsOf(n) ==
  IF n = 0 THEN {<<>>}
  ELSE {Append(w, ch) : w \in StringsOf(n - 1), ch \in NameChars}

\* A class statement always carries a name; a suffix may be any string.
TypeNames == UNION {StringsOf(n) : n \in 1..MaxNameLen}
Suffixes == UNION {StringsOf(n) : n \in 0..MaxSuffixLen}

\* str.lower()
LowerChar(ch) == IF ch = "H" THEN "h" ELSE IF ch = "X" THEN "x" ELSE ch
Lower(w) == [i \in 1..Len(w) |-> LowerChar(w[i])]

\* name.endswith(suffix)
EndsWith(w, suf) ==
  /\ Len(suf) <= Len(w)
  /\ SubSeq(w, Len(w) - Len(suf) + 1, Len(w)) = suf

\* w[:stop]: a negative stop counts from the end, and -0 is 0.
SliceTo(w, stop) ==
  IF stop < 0 THEN SubSeq(w, 1, IF Len(w) + stop < 0 THEN 0 ELSE Len(w) + stop)
  ELSE SubSeq(w, 1, Min(stop, Len(w)))

\* make_suffix_extractor(suffix)(name, cls)
SuffixExtractor(suf, w) ==
  IF EndsWith(w, suf) THEN Lower(SliceTo(w, 0 - Len(suf))) ELSE Lower(w)

NoExtract == [suffix |-> <<>>, name |-> <<>>, done |-> FALSE, key |-> <<>>]

ExtractFrame ==
  UNCHANGED <<prog, text, hasSub, registry, secondary, config, discovered,
              keyAttr, secAttr, imported, cacheFile, mtime, now, probe,
              restarts, latest, runs, report, nested, last, harness,
              threads, scan, auto>>

\* extractor = make_suffix_extractor(suf)
MakeSuffixExtractor(suf) ==
  /\ extract' = [NoExtract EXCEPT !.suffix = suf]
  /\ ExtractFrame

\* key = extractor(w, cls), the first call of the extractor.
Extract(w) ==
  /\ ~extract.done
  /\ extract' = [extract EXCEPT !.name = w, !.done = TRUE,
                                !.key = SuffixExtractor(extract.suffix, w)]
  /\ ExtractFrame

----------------------------------------------------------------------------
(* Types declared without a RegistryConfig: auto-configuration            *)
(* (_auto_configure_registry) and the registration that follows it         *)

\* class A; class B(A); class D; class C(B, D)
AutoTypes == {"A", "B", "C", "D"}

AutoBases(t) ==
  CASE t = "B" -> <<"A">>
    [] t = "C" -> <<"B", "D">>
    [] OTHER   -> <<>>

\* type.__mro__, without object.
Mro(t) ==
  CASE t = "B" -> <<"B", "A">>
    [] t = "C" -> <<"C", "B", "A", "D">>
    [] OTHER   -> <<t>>

\* The attributes a key-attribute name may name, and the value a class body
\* that sets them gives to attribute n of type t.
KeyAttrNames == {"name", "kind"}
AttrValue(t, n) == <<n, t>>
NoValues == [n \in KeyAttrNames |-> Unset]

\* A metaclass derived from AutoRegisterMeta that carries __registry_dict__
\* (a plain dict) and __registry_key__ = 'name'.
MetaRegistry == "OLD"
MetaKeyAttr == "name"

\* Registries: the metaclass's dict, and the one synthesized for a type,
\* named after the type.
RegIds == AutoTypes \cup {MetaRegistry}

\* A class body: __registry_key__ (not set, None or a name), whether it sets
\* the attributes 'name' and 'kind', and whether the class statement names
\* the metaclass that carries a registry.
AutoBodies ==
  [regKey : {Unset, None} \cup KeyAttrNames, hasVal : BOOLEAN,
   carrier : BOOLEAN]

NoBody == [regKey |-> Unset, hasVal |-> FALSE, carrier |-> FALSE]

\* What the last class statement did: the registry of its configuration,
\* whether one was synthesized, whether the statement raised, the entry
\* written.
NoAutoLast ==
  [t |-> None, body |-> NoBody, reg |-> None, synth |-> FALSE,
   raised |-> FALSE, regd |-> <<>>]

\* st: the name is unbound, bound to the type, or bound to None.
\* bound: __registry__ in the type's own __dict__.  vals: the attributes in
\* the type's own __dict__.  configured: the synthesized stores whose
\* _config is set.
NoAuto ==
  [body |-> [t \in AutoTypes |-> NoBody],
   st |-> [t \in AutoTypes |-> Undeclared],
   bound |-> [t \in AutoTypes |-> None],
   vals |-> [t \in AutoTypes |-> NoValues],
   regs |-> [r \in RegIds |-> <<>>],
   configured |-> {},
   last |-> NoAutoLast]

MinOf(S) == CHOOSE x \in S : \A y \in S : x <= y

\* type(new_class): the most derived metaclass of the statement and the
\* bases.
Carrier(a, t) == \E i \in 1..Len(Mro(t)) : a.body[Mro(t)[i]].carrier

\* hasattr(t, '__registry__')
HasRegistry(a, t) == \E i \in 1..Len(Mro(t)) : a.bound[Mro(t)[i]] # None

\* t.__registry__
RegistryOf(a, t) ==
  a.bound[Mro(t)[MinOf({i \in 1..Len(Mro(t)) : a.bound[Mro(t)[i]] # None})]]

\* for base in new_class.__mro__[1:]: if hasattr(base, '__registry__')
BoundAncestors(a, t) ==
  {i \in 2..Len(Mro(t)) : HasRegistry(a, Mro(t)[i])}

BoundAncestor(a, t) ==
  IF BoundAncestors(a, t) = {} THEN None
  ELSE Mro(t)[MinOf(BoundAncestors(a, t))]

\* getattr(t, '__registry_key__', None)
RegKeyHolders(a, t) ==
  {i \in 1..Len(Mro(t)) : a.body[Mro(t)[i]].regKey # Unset}

RegKeyAttr(a, t) ==
  IF RegKeyHolders(a, t) = {} THEN None
  ELSE a.body[Mro(t)[MinOf(RegKeyHolders(a, t))]].regKey

\* getattr(t, n, None) for a key attribute n
ValueHolders(a, t, n) ==
  {i \in 1..Len(Mro(t)) : a.vals[Mro(t)[i]][n] # Unset}

ClassAttr(a, t, n) ==
  IF ValueHolders(a, t, n) = {} THEN None
  ELSE a.vals[Mro(t)[MinOf(ValueHolders(a, t, n))]][n]

NoAutoConfig == [some |-> FALSE, reg |-> None, key |-> None, synth |-> FALSE]

\* Mutant: a key-attribute name in the type's own body wins over a bound
\* ancestor.
AutoConfigureRegistry_OwnKeyFirst(a, t) ==
  IF Carrier(a, t)
  THEN [some |-> TRUE, reg |-> MetaRegistry, key |-> MetaKeyAttr,
        synth |-> FALSE]
  ELSE IF a.body[t].regKey \notin {Unset, None}
  THEN [some |-> TRUE, reg |-> t, key |-> a.body[t].regKey, synth |-> TRUE]
  ELSE IF BoundAncestor(a, t) # None
  THEN [some |-> TRUE, reg |-> RegistryOf(a, BoundAncestor(a, t)),
        key |-> RegKeyAttr(a, BoundAncestor(a, t)), synth |-> FALSE]
  ELSE NoAutoConfig

\* _auto_configure_registry: the metaclass's own registry first, then the
\* first ancestor with a bound registry, then a new store for a body that
\* sets __registry_key__, else no configuration.
AutoConfigureRegistry(a, t) ==
  IF Carrier(a, t)
  THEN [some |-> TRUE, reg |-> MetaRegistry, key |-> MetaKeyAttr,
        synth |-> FALSE]
  ELSE IF BoundAncestor(a, t) # None
  THEN [some |-> TRUE, reg |-> RegistryOf(a, BoundAncestor(a, t)),
        key |-> RegKeyAttr(a, BoundAncestor(a, t)), synth |-> FALSE]
  ELSE IF a.body[t].regKey \notin {Unset, None}
  THEN [some |-> TRUE, reg |-> t, key |-> a.body[t].regKey, synth |-> TRUE]
  ELSE NoAutoConfig

\* __new__, line 402: the type object with the attributes of its body.
CreateAutoClass(a, t, b) ==
  [a EXCEPT !.body[t] = b,
            !.st[t] = "type",
            !.vals[t] = IF b.hasVal
                        THEN [n \in KeyAttrNames |-> AttrValue(t, n)]
                        ELSE NoValues,
            !.last = [NoAutoLast EXCEPT !.t = t, !.body = b]]

\* _auto_configure_registry, lines 574-575: the new store is bound to the
\* type; __new__, lines 417-488: a LazyDiscoveryDict without a config gets
\* the configuration of the first type declared under it.
BindAuto(a, t, cfg) ==
  [a EXCEPT !.bound[t] = IF cfg.synth THEN t ELSE @,
            !.regs[t] = IF cfg.synth THEN <<>> ELSE @,
            !.configured = IF cfg.reg # MetaRegistry THEN @ \cup {cfg.reg}
                           ELSE @,
            !.last.reg = cfg.reg,
            !.last.synth = cfg.synth]

\* __new__, lines 490-504: a type without bases is not registered;
\* getattr(new_class, None, None) raises TypeError; a type without a key is
\* skipped and its name bound to None; else _register_class.
AutoRegister(a, t, cfg) ==
  IF AutoBases(t) = <<>> THEN a
  ELSE IF cfg.key = None
  THEN [a EXCEPT !.st[t] = Undeclared, !.body[t] = NoBody,
                 !.vals[t] = NoValues, !.last.raised = TRUE]
  ELSE IF ClassAttr(a, t, cfg.key) = None
  THEN [a EXCEPT !.st[t] = Skipped]
  ELSE [a EXCEPT
          !.regs[cfg.reg] = DictSet(@, ClassAttr(a, t, cfg.key), t),
          !.vals[t][cfg.key] = ClassAttr(a, t, cfg.key),
          !.last.regd = <<t, ClassAttr(a, t, cfg.key)>>]

Autoconfigured(a, t, cfg) ==
  IF cfg.some THEN AutoRegister(BindAuto(a, t, cfg), t, cfg) ELSE a

\* AutoRegisterMeta.__new__ with registry_config=None.
AutoNew(a, t) == Autoconfigured(a, t, AutoConfigureRegistry(a, t))

AutoFrame ==
  UNCHANGED <<prog, text, hasSub, registry, secondary, config, discovered,
              keyAttr, secAttr, imported, cacheFile, mtime, now, probe,
              restarts, latest, runs, report, nested, last, harness,
              threads, scan, extract>>

\* The class statement of t with body b; its bases are bound to types.
DeclareAuto(t, b) ==
  /\ auto.st[t] = Undeclared
  /\ \A i \in 1..Len(AutoBases(t)) : auto.st[AutoBases(t)[i]] = "type"
  /\ auto' = AutoNew(CreateAutoClass(auto, t, b), t)
  /\ AutoFrame

\* RegistryConfig.registry_name of the modelled registry, and the display
\* names another registry of the application may carry.
DisplayName == "my plugin"
DisplayNames == {"my plugin", "my_plugin", "plugin"}

\* _set_config: cache_name = registry_name.replace(' ', '_') + "_registry";
\* the cache manager appends ".json".
CacheName(n) ==
  IF n = "my plugin" THEN "my_plugin_registry.json"
  ELSE IF n = "my_plugin" THEN "my_plugin_registry.json"
  ELSE "plugin_registry.json"

\* Another registry, with display name n, another base contract and another
\* discovery package, finishes its discovery and saves its snapshot.  Its
\* tracked files lie outside the modelled package and stay unchanged.
OtherSave(n) ==
  /\ CacheName(n) = CacheName(DisplayName)
  /\ cacheFile' = SaveCache(<< <<"a", ForeignClass>> >>, NoMtimes, "plugin")
  /\ last' = [NoLast EXCEPT !.op = "env"]
  /\ UNCHANGED <<mtime, now, probe>>
  /\ EnvUnchanged

----------------------------------------------------------------------------
(* A caller that uses RegistryCacheManager directly, with its own           *)
(* serializer and deserializer (tests/test_cache.py).                       *)

HarnessItems ==
  {<<>>}
    \cup {<< <<k, v>> >> : k \in {"a", "b", "#1"}, v \in HarnessValues}
    \cup {<< <<"a", v>>, <<k, w>> >> :
            k \in {"b", "#1"}, v \in HarnessValues, w \in HarnessValues}

ProcessUnchanged ==
  UNCHANGED <<prog, text, hasSub, registry, secondary, config, discovered,
              keyAttr, secAttr, imported, restarts, latest, runs, report,
              nested, threads, scan, extract, auto>>

\* manager.save_cache(items) or manager.save_cache(items, file_mtimes)
HSave(withMtimes) ==
  /\ cacheFile' = SaveCache(harness.items,
                            IF withMtimes THEN PackageFileMtimes ELSE NoMtimes,
                            "caller")
  /\ harness' = [harness EXCEPT
                   !.saved = [done |-> TRUE, probe |-> probe, now |-> now,
                              mtime |-> mtime],
                   !.res = NoResult, !.cleared = FALSE]
  /\ last' = [NoLast EXCEPT !.op = "save"]
  /\ UNCHANGED <<mtime, now, probe>>
  /\ ProcessUnchanged

\* manager.load_cache()
HLoad ==
  /\ harness' = [harness EXCEPT
                   !.res = LoadItems(cacheFile, harness.check_mtimes)]
  /\ cacheFile' = FileAfterLoad(cacheFile)
  /\ last' = [NoLast EXCEPT !.op = "load"]
  /\ UNCHANGED <<mtime, now, probe>>
  /\ ProcessUnchanged

\* The caller rewrites the cache document without its timestamp
\* (tests/test_cache.py edits the document between save and load).
HStripTimestamp ==
  /\ cacheFile.kind = "snapshot"
  /\ cacheFile.timestamp # NoTimestamp
  /\ cacheFile' = [cacheFile EXCEPT !.timestamp = NoTimestamp]
  /\ harness' = [harness EXCEPT !.saved = NoSaved, !.res = NoResult]
  /\ last' = [NoLast EXCEPT !.op = "edit"]
  /\ UNCHANGED <<mtime, now, probe>>
  /\ ProcessUnchanged

\* Mutant: only a file that holds a snapshot is deleted.
ClearCache_OnlySnapshots(f) == IF f.kind = "snapshot" THEN NoFile ELSE f

\* RegistryCacheManager.clear_cache: the file is unlinked when it exists.
ClearCache(f) == IF f.kind # "none" THEN NoFile ELSE f

\* manager.clear_cache()
HClear ==
  /\ cacheFile' = ClearCache(cacheFile)
  /\ harness' = [harness EXCEPT !.saved = NoSaved, !.res = NoResult,
                                !.cleared = TRUE]
  /\ last' = [NoLast EXCEPT !.op = "clear", !.has = (cacheFile.kind # "none")]
  /\ UNCHANGED <<mtime, now, probe>>
  /\ ProcessUnchanged

----------------------------------------------------------------------------
(* Specification: one program run after run on one disk *)

RootBodies == [key : {Unset, "b"}, abstract : {FALSE}, hasSec : {FALSE}]
XBody == [key |-> "a", abstract |-> FALSE, hasSec |-> TRUE]
YBodies == [key : {"a", "b"}, abstract : BOOLEAN, hasSec : {FALSE}]

Texts ==
  {[c \in {Root} \cup AppClasses |->
      IF c = Root THEN r ELSE IF c = "X" THEN XBody ELSE y] :
     r \in RootBodies, y \in YBodies}

SpecPrograms ==
  {p \in Programs :
     /\ p.pkg = "unset" => p.scanner = "host"
     /\ p.pkg = "empty" => (~p.cache /\ p.scanner = "host")
     /\ ~p.recursive
     /\ ~p.extractor
     /\ p.skip
     /\ PlainBinding(p)}

InitProcess ==
  /\ registry = <<>>
  /\ secondary = <<>>
  /\ config = NoConfig
  /\ discovered = FALSE
  /\ keyAttr = [c \in ClassIds |-> Undeclared]
  /\ secAttr = [c \in ClassIds |-> FALSE]
  /\ imported = {}
  /\ latest = [k \in Keys |-> None]
  /\ runs = 0
  /\ report = NoReport
  /\ nested = NoNested
  /\ last = NoLast
  /\ restarts = 0

InitDisk ==
  /\ mtime = [f \in Modules |-> 0]
  /\ now = 0
  /\ probe = "1.0"

Init ==
  /\ prog \in SpecPrograms
  /\ text \in Texts
  /\ hasSub \in BOOLEAN
  /\ cacheFile \in (IF prog.cache THEN {NoFile, CorruptFile, NonDictFile}
                    ELSE {NoFile})
  /\ harness = NoHarness
  /\ threads = NoThreads
  /\ scan = NoScan
  /\ extract = NoExtract
  /\ auto = NoAuto
  /\ InitProcess
  /\ InitDisk

Next ==
  \/ \E c \in {Root} \cup AppClasses : Declare(c)
  \/ \E m \in Modules : ImportDirect(m)
  \/ \E k \in Keys : Read("getitem", k)
  \/ Read("len", "")
  \/ Restart
  \/ Upgrade

Spec == Init /\ [][Next]_vars

----------------------------------------------------------------------------
(* Specification: every read operation, on stores with and without a      *)
(* discovery package                                                       *)

ReadPrograms ==
  {p \in Programs :
     /\ ~p.cache /\ ~p.recursive /\ ~p.extractor /\ p.skip
     /\ PlainBinding(p)
     /\ p.scanner \in {"host", "custom_raising"}
     /\ p.pkg # "given" => p.scanner = "host"}

ReadText ==
  [c \in {Root} \cup AppClasses |->
     IF c = Root THEN [key |-> Unset, abstract |-> FALSE, hasSec |-> FALSE]
     ELSE IF c = "X" THEN XBody
     ELSE [key |-> "b", abstract |-> FALSE, hasSec |-> FALSE]]

ReadInit ==
  /\ prog \in ReadPrograms
  /\ text = ReadText
  /\ hasSub = FALSE
  /\ cacheFile = NoFile
  /\ harness = NoHarness
  /\ threads = NoThreads
  /\ scan = NoScan
  /\ extract = NoExtract
  /\ auto = NoAuto
  /\ InitProcess
  /\ InitDisk

ReadNext ==
  \/ \E c \in {Root} \cup AppClasses : Declare(c)
  \/ \E op \in ReadOps :
       \E k \in (IF op \in KeyedOps THEN Keys ELSE {""}) : Read(op, k)

ReadSpec == ReadInit /\ [][ReadNext]_vars

----------------------------------------------------------------------------
(* Specification: the registration engine alone, under every missing-key   *)
(* policy, with and without a key extractor                                *)

KeyPrograms ==
  {p \in Programs :
     /\ p.pkg = "empty" /\ ~p.cache /\ p.scanner = "host" /\ ~p.recursive
     /\ PlainBinding(p)}

KeyTexts ==
  {[c \in {Root} \cup KeyClasses |->
      CASE c = Root -> [key |-> r, abstract |-> FALSE, hasSec |-> FALSE]
        [] c = "X"  -> [key |-> x, abstract |-> xa, hasSec |-> TRUE]
        [] c = "Y"  -> [key |-> y, abstract |-> FALSE, hasSec |-> FALSE]
        [] OTHER    -> [key |-> z, abstract |-> FALSE, hasSec |-> TRUE]] :
     r \in {Unset, None}, x \in {Unset, None, "a"}, xa \in BOOLEAN,
     y \in {Unset, "b"}, z \in {Unset, "a"}}

KeyInit ==
  /\ prog \in KeyPrograms
  /\ text \in KeyTexts
  /\ hasSub = FALSE
  /\ cacheFile = NoFile
  /\ harness = NoHarness
  /\ threads = NoThreads
  /\ scan = NoScan
  /\ extract = NoExtract
  /\ auto = NoAuto
  /\ InitProcess
  /\ InitDisk

KeyNext ==
  \/ \E c \in {Root} \cup KeyClasses : Declare(c)
  \/ \E k \in Keys : Read("getitem", k)

KeySpec == KeyInit /\ [][KeyNext]_vars

----------------------------------------------------------------------------
(* Specification: a contract with a secondary binding, on a plain map or   *)
(* on a SecondaryRegistryDict, keyed by the primary key or by its own      *)

SecPrograms ==
  {p \in Programs :
     /\ p.pkg \in {"given", "empty"} /\ ~p.cache
     /\ p.scanner = "custom_flat"
     /\ ~p.recursive /\ ~p.extractor /\ p.skip}

SecTexts ==
  {[c \in {Root} \cup KeyClasses |->
      CASE c = Root -> [key |-> Unset, abstract |-> FALSE, hasSec |-> FALSE]
        [] c = "X"  -> [key |-> "a", abstract |-> FALSE, hasSec |-> xs]
        [] c = "Y"  -> [key |-> y, abstract |-> FALSE, hasSec |-> FALSE]
        [] OTHER    -> [key |-> "b", abstract |-> FALSE, hasSec |-> TRUE]] :
     xs \in BOOLEAN, y \in Keys}

SecInit ==
  /\ prog \in SecPrograms
  /\ text \in SecTexts
  /\ hasSub = FALSE
  /\ cacheFile = NoFile
  /\ harness = NoHarness
  /\ threads = NoThreads
  /\ scan = NoScan
  /\ extract = NoExtract
  /\ auto = NoAuto
  /\ InitProcess
  /\ InitDisk

SecNext ==
  \/ \E c \in {Root} \cup KeyClasses : Declare(c)
  \/ Read("len", "")
  \/ \E op \in ReadOps :
       \E k \in (IF op \in KeyedOps THEN Keys ELSE {""}) : SecRead(op, k)

SecSpec == SecInit /\ [][SecNext]_vars

----------------------------------------------------------------------------
(* Specification: two threads read the store for the first time, with and  *)
(* without a lock of the caller's around the read                          *)

ThreadPrograms ==
  {p \in Programs :
     /\ p.pkg = "given" /\ ~p.cache
     /\ p.scanner \in {"custom_flat", "custom_raising"}
     /\ ~p.recursive /\ ~p.extractor /\ p.skip /\ PlainBinding(p)}

ThreadInit ==
  /\ prog \in ThreadPrograms
  /\ text = ReadText
  /\ hasSub = FALSE
  /\ cacheFile = NoFile
  /\ harness = NoHarness
  /\ threads \in {[NoThreads EXCEPT !.guarded = g] : g \in BOOLEAN}
  /\ scan = NoScan
  /\ extract = NoExtract
  /\ auto = NoAuto
  /\ InitProcess
  /\ InitDisk

ThreadNext ==
  \/ \E c \in {Root} \cup AppClasses : Declare(c)
  \/ \E t \in Threads : TCheck(t)
  \/ \E t \in Threads : TSet(t)
  \/ \E t \in Threads : TBody(t)

ThreadSpec == ThreadInit /\ [][ThreadNext]_vars

----------------------------------------------------------------------------
(* Specification: a caching store whose process restarts while the clock,  *)
(* the version probe and the package files change                          *)

EnvPrograms ==
  {p \in Programs :
     /\ p.pkg = "given" /\ p.cache
     /\ p.scanner \in {"host", "custom_flat"}
     /\ ~p.recursive /\ ~p.extractor /\ p.skip /\ PlainBinding(p)}

EnvInit ==
  /\ prog \in EnvPrograms
  /\ text = ReadText
  /\ hasSub = FALSE
  /\ cacheFile = OldFormatFile("plugin")
  /\ harness = NoHarness
  /\ threads = NoThreads
  /\ scan = NoScan
  /\ extract = NoExtract
  /\ auto = NoAuto
  /\ InitProcess
  /\ InitDisk

EnvNext ==
  \/ Declare(Root)
  \/ Read("len", "")
  \/ Restart
  \/ Upgrade
  \/ \E t \in TimePoints : Tick(t)
  \/ \E d \in 1..MaxMtime : Touch("m1", d)
  \/ Remove("m2")
  \/ Create("m2")

EnvSpec == EnvInit /\ [][EnvNext]_vars

----------------------------------------------------------------------------
(* Specification: a caching store beside another registry of the same      *)
(* application                                                              *)

NamePrograms ==
  {p \in Programs :
     /\ p.pkg = "given" /\ p.cache
     /\ p.scanner \in {"host", "custom_flat"}
     /\ ~p.recursive /\ ~p.extractor /\ p.skip /\ PlainBinding(p)}

NameInit ==
  /\ prog \in NamePrograms
  /\ text = ReadText
  /\ hasSub = FALSE
  /\ cacheFile = NoFile
  /\ harness = NoHarness
  /\ threads = NoThreads
  /\ scan = NoScan
  /\ extract = NoExtract
  /\ auto = NoAuto
  /\ InitProcess
  /\ InitDisk

NameNext ==
  \/ Declare(Root)
  \/ Read("len", "")
  \/ Restart
  \/ \E n \in DisplayNames : OtherSave(n)
  \/ \E t \in TimePoints : Tick(t)

NameSpec == NameInit /\ [][NameNext]_vars

----------------------------------------------------------------------------
(* Specification: the scanner under a direct caller                        *)

ScanPrograms ==
  {p \in Programs :
     /\ p.pkg = "given" /\ ~p.cache /\ p.scanner = "custom_flat"
     /\ ~p.recursive /\ ~p.extractor /\ p.skip /\ PlainBinding(p)}

ScanInit ==
  /\ prog \in ScanPrograms
  /\ text = ReadText
  /\ hasSub = FALSE
  /\ cacheFile = NoFile
  /\ harness = NoHarness
  /\ threads = NoThreads
  /\ scan \in {[NoScan EXCEPT !.alias = a, !.health = h] :
                 a \in BOOLEAN, h \in [Unhealthy -> ScanHealths]}
  /\ extract = NoExtract
  /\ auto = NoAuto
  /\ InitProcess
  /\ InitDisk

ScanNext ==
  \/ \E ex \in ExcludeSets, v \in ValidationFuncs, skip \in BOOLEAN :
       ScanFlat(ex, v, skip)
  \/ \E ex \in ExcludeSets, v \in ValidationFuncs : ScanRecursive(ex, v)
  \/ ScanRestart

ScanSpec == ScanInit /\ [][ScanNext]_vars

----------------------------------------------------------------------------
(* Specification: suffix extractors under a direct caller                  *)

ExtractInit ==
  /\ prog \in ScanPrograms
  /\ text = ReadText
  /\ hasSub = FALSE
  /\ cacheFile = NoFile
  /\ harness = NoHarness
  /\ threads = NoThreads
  /\ scan = NoScan
  /\ extract = NoExtract
  /\ auto = NoAuto
  /\ InitProcess
  /\ InitDisk

ExtractNext ==
  \/ \E suf \in Suffixes : MakeSuffixExtractor(suf)
  \/ \E w \in TypeNames : Extract(w)

ExtractSpec == ExtractInit /\ [][ExtractNext]_vars

----------------------------------------------------------------------------
(* Specification: the cache manager under a direct caller, with the clock, *)
(* the version probe and the package files changing                        *)

CachePrograms ==
  {p \in Programs :
     /\ p.pkg = "given" /\ p.cache /\ p.scanner = "host"
     /\ ~p.recursive /\ ~p.extractor /\ p.skip /\ PlainBinding(p)}

CacheInit ==
  /\ prog \in CachePrograms
  /\ text = ReadText
  /\ hasSub = FALSE
  /\ cacheFile \in {NoFile, OldFormatFile("caller"), UndecodableFile}
  /\ harness \in [items : HarnessItems, check_mtimes : BOOLEAN,
                   saved : {NoSaved}, res : {NoResult}, cleared : {FALSE}]
  /\ threads = NoThreads
  /\ scan = NoScan
  /\ extract = NoExtract
  /\ auto = NoAuto
  /\ InitProcess
  /\ InitDisk

CacheNext ==
  \/ \E withMtimes \in BOOLEAN : HSave(withMtimes)
  \/ HLoad
  \/ HClear
  \/ HStripTimestamp
  \/ \E t \in TimePoints : Tick(t)
  \/ Upgrade
  \/ \E d \in 1..MaxMtime : Touch("m1", d)
  \/ Remove("m2")

CacheSpec == CacheInit /\ [][CacheNext]_vars

----------------------------------------------------------------------------
(* Claims *)

SameProcess == restarts' = restarts

\* C1 as stated: for a concrete type T whose declaration resolved key k, the
\* read registry[k] that directly follows the declaration returns T, also
\* when that read is the first read and runs discovery.
C1_Original ==
  (last.op = "getitem" /\ last.regd # <<>> /\ last.key = last.regd[2])
    => last.val = last.regd[1]

\* C1 amended: right after the declaration the store holds T under k, a read
\* of registry[k] that follows directly and does not run discovery returns
\* T, and one that runs discovery returns some type, never a missing key.
C1_ImmediateRead ==
  /\ (last.op = "declare" /\ last.regd # <<>>)
       => DictGet(registry, last.regd[2]) = last.regd[1]
  /\ (last.op = "getitem" /\ last.regd # <<>> /\ last.key = last.regd[2])
       => /\ last.val \in AppClasses \cup PkgClasses
          /\ ~last.ran => last.val = last.regd[1]

C1_Witness ==
  /\ last.op = "getitem" /\ last.regd # <<>> /\ last.key = last.regd[2]
  /\ ~last.ran /\ discovered
  /\ last.val = "Y"

\* C2: in one process the discovery body starts at most once: the flag, once
\* set, stays set; a discovery that failed is not retried; a read issued by
\* a module imported during the scan starts no nested discovery; a read of a
\* discovered store leaves its contents alone.
C2_DiscoverOnce ==
  [][SameProcess =>
       /\ runs' <= 1
       /\ ~nested'.started
       /\ discovered => (discovered' /\ runs' = runs)
       /\ (discovered /\ last'.op \in ReadOps) => registry' = registry]_vars

C2_Witness ==
  /\ discovered /\ runs = 1
  /\ report.scanRaised
  /\ last.op \in ReadOps /\ ~last.ran
  /\ registry # <<>>

C2_WitnessNested ==
  /\ nested.seen /\ discovered /\ runs = 1
  /\ last.op \in ReadOps /\ ~last.ran

\* C3: on a store bound to a configuration with a discovery package, each
\* of contains, len, iter, getitem, keys, values, items and get runs
\* discovery before it computes its result when discovery has not run; on
\* a store with no configuration or no discovery package the read answers
\* from the local entries, imports nothing and leaves the flag unset.
C3_ReadsDiscoverFirst ==
  [][last'.op \in ReadOps =>
       /\ last'.keys = KeySeq(registry')
       /\ last'.len = Len(registry')
       /\ last'.has = (last'.key \in DictKeys(registry'))
       /\ IF config.set /\ config.pkg /\ ~discovered
          THEN /\ discovered' /\ last'.ran /\ runs' = runs + 1
               /\ (report'.scanned /\ ~report'.scanRaised)
                    => last'.keys \in {<<"a", "b">>, <<"b", "a">>}
          ELSE /\ ~last'.ran /\ runs' = runs
               /\ registry' = registry
               /\ imported' = imported
               /\ discovered' = discovered
       /\ ~(config.set /\ config.pkg) => ~discovered']_vars

C3_Witness ==
  /\ last.op = "get" /\ last.ran /\ last.key = "b" /\ last.val = "Q"
  /\ keyAttr["X"] = "a" /\ keyAttr["Y"] = Undeclared

C3_WitnessNoPackage ==
  /\ last.op = "items" /\ ~last.ran /\ config.set /\ ~config.pkg
  /\ ~discovered /\ last.keys = <<"a", "b">>

\* The last step was a read that ran discovery.
ReadRan == last.op \in ReadOps /\ last.ran

\* The package's classes a scan in the bound mode reaches.
InScanScope(c) ==
  /\ OnDisk(ModuleOf(c))
  /\ config.recursive \/ ModuleOf(c) \in {TopModules[i] : i \in 1..Len(TopModules)}

\* C4: once two concrete types have resolved the same key k, registry[k] is
\* the type declared later, in every later state of the process, also after
\* a discovery served by a scan or by a cache bulk-insert.
C4_Original ==
  \A k \in Keys : latest[k] # None => DictGet(registry, k) = latest[k]

\* C5: the declaration of a contract root or of a still-abstract type leaves
\* the primary and the secondary registry as they were, whatever its key
\* attribute.
C5_RootAndAbstractSkipped ==
  [][(/\ last'.op = "declare"
      /\ ~last'.raised
      /\ last'.cls = Root \/ text[last'.cls].abstract)
       => /\ registry' = registry
          /\ secondary' = secondary
          /\ last'.regd = <<>>]_vars

C5_Witness ==
  /\ last.op = "declare" /\ last.cls = "Y" /\ text["Y"].abstract
  /\ text["Y"].key = "b" /\ keyAttr["Y"] = "b"
  /\ registry # <<>> /\ "b" \notin DictKeys(registry)

C5_WitnessRoot ==
  /\ last.op = "declare" /\ last.cls = Root
  /\ keyAttr[Root] = "b" /\ registry = <<>>

\* C6: when the cache load or the scan (or the custom discovery function)
\* raises during discovery, the read that started it does not raise: the
\* flag is set, what was in the store before and what the failed step
\* inserted stays, and the read is answered from the store as it stands.
C6_DiscoveryFailureContained ==
  [][(/\ last'.op \in ReadOps /\ last'.ran
      /\ report'.loadRaised \/ report'.scanRaised)
       => /\ ~last'.raised
          /\ discovered'
          /\ DictKeys(registry) \subseteq DictKeys(registry')
          /\ (prog.scanner = "custom_raising" /\ report'.scanned)
               => ("m1" \in imported' /\ "a" \in DictKeys(registry'))
          /\ last'.keys = KeySeq(registry')
          /\ last'.len = Len(registry')
          /\ last'.has = (last'.key \in DictKeys(registry'))]_vars

C6_Witness ==
  /\ ReadRan /\ report.scanRaised /\ prog.scanner = "custom_raising"
  /\ last.op = "getitem" /\ last.key = "a" /\ last.val = "P"
  /\ discovered /\ ~last.raised

C6_WitnessLoad ==
  /\ ReadRan /\ report.loadRaised /\ ~report.scanRaised
  /\ discovered /\ ~last.raised /\ last.len > 0

\* C7: with caching enabled and a load that returns a map, discovery puts
\* every entry of the map into the store and ends: the package is not
\* scanned in this run and no snapshot is written.
C7_CacheHitSkipsScan ==
  [][(last'.op \in ReadOps /\ last'.ran /\ report'.loaded)
       => /\ config'.mgr
          /\ ~report'.scanned /\ ~report'.scanRaised /\ ~report'.saved
          /\ cacheFile' = cacheFile
          /\ \A i \in 1..Len(cacheFile.items) :
               DictGet(registry', cacheFile.items[i][1])
                 = cacheFile.items[i][2].class_name]_vars

C7_Witness ==
  /\ ReadRan /\ report.loaded /\ ~report.scanned
  /\ Len(cacheFile.items) = 2 /\ Len(registry) = 2
  /\ restarts = 1

\* C8 as stated: when the cache is off, misses or raises and no custom
\* discovery function is configured, discovery runs this system's scanner
\* over the configured discovery package, so that after the first read
\* every conforming concrete type of the package has been registered.
C8_Original ==
  (/\ ReadRan /\ ~report.loaded
   /\ prog.pkg = "given" /\ prog.scanner \in {"host", "host_missing"})
    => \A c \in PkgClasses : InScanScope(c) => keyAttr[c] \in Keys

C9_WitnessRaised ==
  /\ ReadRan /\ report.scanRaised /\ config.mgr
  /\ cacheFile.kind = "nondict" /\ report.loadRaised

\* The save the caller made is still in force: same probe result, age
\* within the maximum, file mtimes as they were.
SavedUnchanged ==
  /\ harness.saved.done
  /\ probe = harness.saved.probe
  /\ now - harness.saved.now <= MaxAgeDays
  /\ mtime = harness.saved.mtime

\* The map load returned has the keys of items and, per key, the value
\* deserialize(serialize(value)).
RoundTripped ==
  /\ harness.res.some
  /\ KeySeq(harness.res.items) = KeySeq(harness.items)
  /\ \A i \in 1..Len(harness.items) :
       DictGet(harness.res.items, harness.items[i][1])
         = HDeser(HSer(harness.items[i][2]))

StaleVersion(f) ==
  f.kind = "snapshot"
    /\ (f.version # probe \/ f.cache_version # FormatVersion)

\* C11: when the snapshot's stored source-version differs from what the
\* version probe reports at load time, or its stored format-version differs
\* from the running one, the load returns absent and the discovery that
\* started it takes nothing from the snapshot and scans the package afresh.
C11_StaleVersionRescanned ==
  [][(last'.op \in ReadOps /\ last'.ran /\ StaleVersion(cacheFile))
       => (/\ ~report'.loaded /\ ~report'.loadRaised
           /\ report'.scanned)]_vars

\* The first read of the first run meets the old-format snapshot.
C11_Witness ==
  /\ ReadRan /\ restarts = 0 /\ probe = "1.0" /\ now = 0
  /\ ~report.loaded /\ report.scanned
  /\ cacheFile.cache_version = FormatVersion /\ Len(registry) = 2

\* A read after an upgrade and a restart meets a snapshot of version 1.0.
C11_WitnessUpgrade ==
  /\ ReadRan /\ restarts = 1 /\ probe = "2.0"
  /\ ~report.loaded /\ report.scanned
  /\ cacheFile.version = "2.0" /\ Len(registry) = 2

\* Every check of a load other than the age passes on snapshot f.
OtherChecksPass(f) ==
  /\ f.kind = "snapshot" /\ ~StaleVersion(f)
  /\ (harness.check_mtimes /\ f.file_mtimes # NoMtimes)
       => ValidateMtimes(f.file_mtimes)
  /\ \A i \in 1..Len(f.items) : HDeserOk(f.items[i][2])

\* C12: a load returns absent whenever the snapshot's age, now minus its
\* creation timestamp, exceeds the configured maximum; an age of at most
\* the maximum does not by itself invalidate it; a snapshot without a
\* creation timestamp is treated as expired.
C12_AgeDecides ==
  (last.op = "load" /\ cacheFile.kind = "snapshot")
    => /\ (cacheFile.timestamp # NoTimestamp
            /\ now - cacheFile.timestamp > MaxAgeDays)
           => (~harness.res.some /\ ~harness.res.raised)
       /\ (cacheFile.timestamp # NoTimestamp
            /\ now - cacheFile.timestamp <= MaxAgeDays
            /\ OtherChecksPass(cacheFile))
           => harness.res.some
       /\ cacheFile.timestamp = NoTimestamp
           => (~harness.res.some /\ ~harness.res.raised)

\* A load of an otherwise valid snapshot one day past the maximum.
C12_Witness ==
  /\ last.op = "load" /\ OtherChecksPass(cacheFile)
  /\ cacheFile.timestamp = 0 /\ now = MaxAgeDays + 1
  /\ Len(cacheFile.items) = 2 /\ ~harness.res.some

\* A load of a valid snapshot that is exactly the maximum old.
C12_WitnessBoundary ==
  /\ last.op = "load" /\ OtherChecksPass(cacheFile)
  /\ cacheFile.timestamp = 0 /\ now = MaxAgeDays
  /\ Len(cacheFile.items) = 2 /\ harness.res.some

\* A load of an otherwise valid snapshot whose timestamp was stripped.
C12_WitnessNoTimestamp ==
  /\ last.op = "load" /\ OtherChecksPass(cacheFile)
  /\ cacheFile.timestamp = NoTimestamp /\ now = 0
  /\ Len(cacheFile.items) = 2 /\ ~harness.res.some

\* The files the snapshot on disk tracks.
Tracked == {f \in Modules : cacheFile.file_mtimes[f] # -1}

\* The snapshot on disk is loaded by a manager that checks mtimes and it
\* carries a file-to-mtime map.
MtimesChecked ==
  /\ last.op = "load" /\ cacheFile.kind = "snapshot"
  /\ harness.check_mtimes /\ cacheFile.file_mtimes # NoMtimes

\* C13: with mtime tracking on and a snapshot that carries a file-to-mtime
\* map, a load returns absent if a tracked file no longer exists or its
\* current mtime is more than one second from the recorded one; differences
\* of at most one second on every tracked file do not invalidate it.
C13_MtimesDecide ==
  MtimesChecked
    => /\ (\E f \in Tracked :
             \/ mtime[f] = -1
             \/ Abs(mtime[f] - cacheFile.file_mtimes[f]) > MtimeTolerance)
           => (~harness.res.some /\ ~harness.res.raised)
       /\ (/\ \A f \in Tracked :
                /\ mtime[f] # -1
                /\ Abs(mtime[f] - cacheFile.file_mtimes[f]) <= MtimeTolerance
            /\ ~StaleVersion(cacheFile)
            /\ CacheAge(cacheFile) <= MaxAgeDays
            /\ \A i \in 1..Len(cacheFile.items) :
                 HDeserOk(cacheFile.items[i][2]))
           => harness.res.some

\* A load after a tracked file was removed.
C13_Witness ==
  /\ MtimesChecked /\ "m2" \in Tracked /\ mtime["m2"] = -1
  /\ mtime["m1"] = cacheFile.file_mtimes["m1"]
  /\ ~StaleVersion(cacheFile) /\ now = cacheFile.timestamp
  /\ Len(cacheFile.items) = 2 /\ ~harness.res.some
  /\ \A i \in 1..Len(cacheFile.items) : HDeserOk(cacheFile.items[i][2])

\* A load after a tracked file was rewritten one second later.
C13_WitnessWithin ==
  /\ MtimesChecked /\ Tracked = {"m1", "m2"}
  /\ mtime["m1"] = cacheFile.file_mtimes["m1"] + MtimeTolerance
  /\ Len(cacheFile.items) = 2 /\ harness.res.some

\* A load after a tracked file was rewritten two seconds later.
C13_WitnessBeyond ==
  /\ MtimesChecked /\ Tracked = {"m1", "m2"}
  /\ mtime["m1"] = cacheFile.file_mtimes["m1"] + MtimeTolerance + 1
  /\ mtime["m2"] = cacheFile.file_mtimes["m2"]
  /\ ~StaleVersion(cacheFile) /\ now = cacheFile.timestamp
  /\ Len(cacheFile.items) = 2 /\ ~harness.res.some
  /\ \A i \in 1..Len(cacheFile.items) : HDeserOk(cacheFile.items[i][2])

\* C14: when the deserialization of any single entry of the snapshot fails,
\* the load returns absent: it raises nothing and hands back no map, not
\* even one of the entries that did deserialize.
C14_FailClosed ==
  (/\ last.op = "load" /\ cacheFile.kind = "snapshot"
   /\ \E i \in 1..Len(cacheFile.items) : ~HDeserOk(cacheFile.items[i][2]))
    => (/\ ~harness.res.some /\ ~harness.res.raised
        /\ harness.res.items = <<>>)

\* A load of a snapshot that passes every check and whose second entry
\* alone fails to deserialize.
C14_Witness ==
  /\ last.op = "load" /\ cacheFile.kind = "snapshot"
  /\ LoadVerdict(cacheFile, harness.check_mtimes) = "valid"
  /\ Len(cacheFile.items) = 2
  /\ HDeserOk(cacheFile.items[1][2]) /\ ~HDeserOk(cacheFile.items[2][2])
  /\ ~harness.res.some

\* The cache file exists and its content does not parse: it is text that is
\* not JSON, or bytes that are not text at all.
Unparseable(f) == f.kind \in {"corrupt", "undecodable"}

\* C15 as stated: when the cache file exists but does not parse as
\* structured data, the load deletes the file and returns absent without
\* raising, so that a later load finds no file.
C15_Original ==
  [][(last'.op = "load" /\ Unparseable(cacheFile))
       => (/\ ~harness'.res.some /\ ~harness'.res.raised
           /\ cacheFile' = NoFile)]_vars

\* The caller's save met an entry whose serializer raised.
SaveMetFailure ==
  /\ last.op = "save"
  /\ \E i \in 1..Len(harness.items) : ~HSerOk(harness.items[i][2])

\* The snapshot on disk holds exactly the entries of the saved map whose
\* serializer returned, each under its key with its serialized value.
SucceededPresent ==
  \A i \in 1..Len(harness.items) :
    /\ HSerOk(harness.items[i][2])
         <=> JsonKey(harness.items[i][1]) \in DictKeys(cacheFile.items)
    /\ HSerOk(harness.items[i][2])
         => DictGet(cacheFile.items, JsonKey(harness.items[i][1]))
              = HSer(harness.items[i][2])

Eligible(c) == Parent(c) # None /\ ~Body(c).abstract

\* Key resolution for the class statement of c finds nothing: no key
\* attribute is found on the type and the extractor, if any, yields nothing.
Unresolved(c) ==
  GetRegistrationKey([keyAttr EXCEPT ![c] = Body(c).key], c) = None

\* C17: with skip-on-missing-key disabled, the declaration of a non-root,
\* non-abstract type for which no key can be resolved raises a
\* configuration error that names the missing key attribute, and the
\* primary and the secondary registries stay as they were.
C17_MissingKeyRaises ==
  [][(/\ last'.op = "declare" /\ ~prog.skip
      /\ Eligible(last'.cls) /\ Unresolved(last'.cls))
       => (/\ last'.raised /\ last'.err = MissingKeyError
           /\ registry' = registry /\ secondary' = secondary)]_vars

\* The extractor yields nothing for Z, declared after X was registered.
C17_Witness ==
  /\ last.op = "declare" /\ last.cls = "Z" /\ ~prog.skip /\ prog.extractor
  /\ last.raised /\ last.err = MissingKeyError
  /\ Len(registry) = 1 /\ Len(secondary) = 1

\* No key attribute and no extractor.
C17_WitnessNoExtractor ==
  /\ last.op = "declare" /\ last.cls = "X" /\ ~prog.skip /\ ~prog.extractor
  /\ text["X"].key = Unset
  /\ last.raised /\ last.err = MissingKeyError /\ registry = <<>>

\* C18 as stated: under the skip policy, the declaration of a concrete type
\* for which no key can be resolved raises no error and leaves the primary
\* and the secondary registries as they were.
C18_Original ==
  [][(/\ last'.op = "declare" /\ prog.skip
      /\ Eligible(last'.cls) /\ Unresolved(last'.cls))
       => (/\ ~last'.raised
           /\ registry' = registry /\ secondary' = secondary)]_vars

\* C19 as stated: an intermediate type that has no key, and was therefore
\* skipped, can be used as the parent of a later type, and a concrete type
\* declared beneath it with key k is registered under k.
C19_Original ==
  (/\ last.op = "declare" /\ last.cls = "Y"
   /\ keyAttr["X"] = Skipped /\ text["Y"].key \in Keys)
    => (/\ ~last.raised
        /\ text["Y"].key \in DictKeys(registry)
        /\ DictGet(registry, text["Y"].key) = "Y")

\* The key attribute as the class bodies set it: the value the body of c
\* gives it, else the one the nearest ancestor's body gives it.
RECURSIVE ExplicitKey(_)
ExplicitKey(c) ==
  IF c = None THEN None
  ELSE IF Body(c).key # Unset THEN Body(c).key
  ELSE ExplicitKey(Parent(c))

\* The resolution order of the claim: the explicit key attribute when it is
\* not empty, else the extractor's result for the declared name if an
\* extractor is configured, else none.
KeyByOrder(c) ==
  IF ExplicitKey(c) # None THEN ExplicitKey(c)
  ELSE IF prog.extractor THEN XKey(c)
  ELSE None

\* C20 as stated: the key of a declared type is resolved in the order
\* explicit key attribute, extractor result, none; the extractor is not
\* consulted when an explicit key is present; with no key resolved the
\* missing-key policy applies.
C20_Original ==
  (last.op = "declare" /\ Eligible(last.cls) /\ last.err # BaseError)
    => IF KeyByOrder(last.cls) = None
       THEN /\ last.regd = <<>>
            /\ prog.skip => (~last.raised /\ keyAttr[last.cls] = Skipped)
            /\ ~prog.skip => last.err = MissingKeyError
       ELSE /\ ~last.raised
            /\ last.regd = <<last.cls, KeyByOrder(last.cls)>>

\* The last step was the class statement of a type that was registered.
JustRegistered == last.op = "declare" /\ last.regd # <<>>

\* The value of the binding's source attribute on the type just declared.
SecValue == SecLookup(secAttr, last.cls)

\* C21: when the source attribute of the secondary binding is not empty on
\* a newly registered concrete type, then right after the declaration the
\* binding's map holds the attribute's value under the type's resolved
\* primary key, or, for a binding with a key source of its own, under the
\* value of that key-source attribute.
C21_SecondaryHolds ==
  (JustRegistered /\ SecValue # None)
    => IF prog.secKey = "primary"
       THEN /\ last.regd[2] \in DictKeys(secondary)
            /\ DictGet(secondary, last.regd[2]) = SecValue
       ELSE SecKeyLookup(last.cls) # None
              => /\ SecKeyLookup(last.cls) \in DictKeys(secondary)
                 /\ DictGet(secondary, SecKeyLookup(last.cls)) = SecValue

\* X, registered under "a", is bound under the value "b" of its key-source
\* attribute.
C21_Witness ==
  /\ JustRegistered /\ last.regd = <<"X", "a">> /\ prog.secKey = "own"
  /\ SecValue = "X" /\ secondary = << <<"b", "X">> >>

\* Y, registered under "b", is bound under its primary key with the value
\* it inherits from X.
C21_WitnessPrimary ==
  /\ JustRegistered /\ last.regd = <<"Y", "b">> /\ prog.secKey = "primary"
  /\ SecValue = "X" /\ DictGet(secondary, "b") = "X"

\* C22: when the source attribute of the secondary binding is absent or
\* empty on a concrete type, or the binding's own key-source attribute is
\* missing on it, the declaration of the type raises no error, leaves the
\* secondary map as it was and still registers the type in the primary
\* registry.
C22_UnservedBindingSkipped ==
  [][(/\ last'.op = "declare" /\ Eligible(last'.cls)
      /\ ~Unresolved(last'.cls)
      /\ \/ SecLookup(secAttr', last'.cls) = None
         \/ (prog.secKey = "own" /\ SecKeyLookup(last'.cls) = None))
       => (/\ ~last'.raised
           /\ secondary' = secondary
           /\ last'.regd # <<>> /\ last'.regd[1] = last'.cls
           /\ DictGet(registry', last'.regd[2]) = last'.cls)]_vars

\* Z sets the source attribute but lacks the binding's key-source
\* attribute; X had been bound before.
C22_Witness ==
  /\ last.op = "declare" /\ last.cls = "Z" /\ prog.secKey = "own"
  /\ SecValue = "Z" /\ SecKeyLookup("Z") = None
  /\ last.regd = <<"Z", "b">> /\ secondary = << <<"b", "X">> >>

\* Neither X nor any ancestor sets the source attribute.
C22_WitnessAbsent ==
  /\ last.op = "declare" /\ last.cls = "X" /\ SecValue = None
  /\ last.regd = <<"X", "a">> /\ secondary = <<>>

\* C23 as stated: once the first declaration has wrapped the plain map of a
\* secondary binding, the wrapped registry is the one the engine writes to:
\* a read of the wrapped registry forces the primary's discovery and finds
\* every secondary entry the engine wrote for a type declared since.
C23_Original ==
  (last.store = "secondary" /\ config.wraps)
    => /\ (config.pkg => discovered)
       /\ \A i \in 1..Len(secondary) :
            \E j \in 1..Len(last.keys) : last.keys[j] = secondary[i][1]

\* The entries of the secondary store after the step.
SecondaryStoreAfter == IF config'.wraps THEN config'.wrapper ELSE secondary'

\* C24: every read of a secondary store (contains, len, iter, getitem,
\* keys, values, items, get) first runs the bound primary store's discovery
\* if it has not run yet and then answers from the secondary store's own
\* entries; the secondary store starts no scan of its own, and its reads
\* never make the primary's discovery run a second time.
C24_SecondaryReadsDiscoverFirst ==
  [][last'.store = "secondary" =>
       /\ last'.keys = KeySeq(SecondaryStoreAfter)
       /\ last'.len = Len(SecondaryStoreAfter)
       /\ last'.has = (last'.key \in DictKeys(SecondaryStoreAfter))
       /\ last'.has => last'.val = DictGet(SecondaryStoreAfter, last'.key)
       /\ IF config.set /\ config.pkg /\ ~discovered
          THEN /\ discovered' /\ last'.ran /\ runs' = runs + 1
               /\ report'.scanned
          ELSE /\ ~last'.ran /\ runs' = runs
               /\ registry' = registry /\ secondary' = secondary
               /\ imported' = imported /\ report' = report
               /\ discovered' = discovered
       /\ runs' <= 1]_vars

\* get("a") on a secondary store the program built itself is the first
\* read of the process: the primary's discovery runs and binds P's value.
C24_Witness ==
  /\ last.store = "secondary" /\ last.op = "get" /\ last.key = "a"
  /\ prog.sec = "lazy" /\ prog.secKey = "primary"
  /\ last.ran /\ discovered /\ last.val = "P"
  /\ keyAttr["X"] = Undeclared

\* A read of the secondary store after discovery has run.
C24_WitnessSecond ==
  /\ last.store = "secondary" /\ last.op = "len"
  /\ ~last.ran /\ discovered /\ runs = 1 /\ last.len = 2

\* C25: within a process no operation of the engine (a declaration, a
\* scan, a bulk-insert from the cache, a discovery that fails part-way)
\* removes a key from the primary registry: the keys stay, in their order,
\* and the value under a key changes only to a type written under that key.
C25_KeysNeverRemoved ==
  [][SameProcess =>
       /\ Len(registry') >= Len(registry)
       /\ \A i \in 1..Len(registry) :
            /\ registry'[i][1] = registry[i][1]
            /\ registry'[i][2] # registry[i][2]
                 => keyAttr'[registry'[i][2]] = registry[i][1]]_vars

\* A discovery that failed part-way wrote P over X under "a" and removed
\* nothing.
C25_Witness ==
  /\ ReadRan /\ report.scanRaised
  /\ keyAttr["X"] = "a" /\ keyAttr["Y"] = "b"
  /\ registry = << <<"a", "P">>, <<"b", "Y">> >>

\* A bulk-insert from the cache on top of a declared type.
C25_WitnessCache ==
  /\ ReadRan /\ report.loaded /\ keyAttr["X"] = "a"
  /\ Len(registry) = 2 /\ DictGet(registry, "a") = "P"

\* The threads that are past the guard of _discover.
PastGuard == {t \in Threads : threads.pc[t] \in {"checked", "body"}}

\* C26: the check of the discovered flag and its setting are two steps, so
\* without a lock two threads that read the store for the first time can
\* both be past the check before either has set the flag, and both then
\* run the discovery body; when each read holds a lock around the check
\* and the set, at most one thread is ever past the check and the body
\* runs once.
C26_RaceUnlessGuarded ==
  /\ threads.guarded => (Cardinality(PastGuard) <= 1 /\ runs <= 1)
  /\ Cardinality(PastGuard) = 2 => ~threads.guarded
  /\ runs > 1 => ~threads.guarded

\* Without a lock both threads ran the discovery body.
C26_Witness ==
  /\ ~threads.guarded /\ runs = 2 /\ discovered
  /\ \A t \in Threads : threads.pc[t] = "done"

\* Both threads have passed the check and neither has set the flag.
C26_WitnessBothChecked ==
  /\ ~threads.guarded /\ ~discovered
  /\ \A t \in Threads : threads.pc[t] = "checked"

\* Under the lock both reads returned and the body ran once.
C26_WitnessGuarded ==
  /\ threads.guarded /\ runs = 1 /\ discovered
  /\ \A t \in Threads : threads.pc[t] = "done"

\* C27 as stated: two registries with different base contracts or discovery
\* packages never load each other's cache snapshot, also when their display
\* names are equal: the store never holds a class that another registry saved.
C27_Original ==
  \A i \in 1..Len(registry) : registry[i][2] # ForeignClass

\* The types the last scan returned.
ScanResult == {scan.result[i] : i \in 1..Len(scan.result)}

\* The unit and every package above it import without error.
RECURSIVE Healthy(_)
Healthy(u) ==
  /\ Health(u) = "ok"
  /\ ScanParent(u) # None => Healthy(ScanParent(u))

\* The types defined in unit u that conform to the last call.
Conforming(u) ==
  {c \in ScanClasses : Accepts(u, scan.call.validation, TRUE, c)}

NotExcluded(u) == ~AnyExcluded(scan.call.exclude, ModuleName(u))

\* What C28 says a flat scan returns.
FlatExpected ==
  UNION {Conforming(u) : u \in {w \in ScanUnits :
                                  /\ ScanParent(w) = None /\ ~IsPkg(w)
                                  /\ NotExcluded(w) /\ Healthy(w)}}

\* C28 as stated: a flat scan that skips packages returns exactly the
\* subclasses of the base, other than the base, that are defined in a
\* non-package direct child module whose name matches no exclusion string and
\* pass the validation predicate, and each of them once.
C28_Original ==
  (scan.call.mode = "flat" /\ scan.call.skip) =>
    /\ ScanResult = FlatExpected
    /\ Len(scan.result) = Cardinality(FlatExpected)

\* The units the last call has to scan.
InCallScope(u) ==
  /\ NotExcluded(u)
  /\ IF scan.call.mode = "flat"
     THEN ScanParent(u) = None /\ (IsPkg(u) => ~scan.call.skip)
     ELSE ~IsPkg(u)

\* C29 as stated: in both modes a module or sub-package that fails, with an
\* ImportError or any other exception, raises nothing to the caller, and the
\* conforming types of every other module in scope are returned.
C29_Original ==
  scan.call.mode # "none" =>
    /\ ~scan.raised
    /\ \A u \in ScanUnits :
         (InCallScope(u) /\ Healthy(u)) => Conforming(u) \subseteq ScanResult

\* A flat scan imports no module that lies inside a sub-package and returns
\* no type of one.
FlatStaysOut ==
  scan'.call.mode = "flat" =>
    /\ \A u \in scan'.modules \ scan.modules : ScanParent(u) = None
    /\ \A i \in 1..Len(scan'.result) :
         ScanParent(DefinedIn(scan'.result[i])) = None

\* A recursive scan has entered every sub-package that imports without
\* error and returned the conforming types of the modules at every depth.
RecursiveEnters ==
  scan.call.mode = "recursive" =>
    /\ \A p \in ScanPackages : Healthy(p) => p \in scan.modules
    /\ \A u \in ScanUnits :
         (~IsPkg(u) /\ NotExcluded(u) /\ Healthy(u))
           => Conforming(u) \subseteq ScanResult

\* C30 as stated: the flat scan never imports and never returns types from
\* modules inside sub-packages, and the recursive scan enters every
\* sub-package and returns the conforming types at every depth.
C30_Original == [][FlatStaysOut /\ RecursiveEnters']_vars

\* What C31 says the extractor for suffix suf returns for name w.
SuffixRemoved(suf, w) ==
  IF EndsWith(w, suf) THEN Lower(SubSeq(w, 1, Len(w) - Len(suf)))
  ELSE Lower(w)

\* C31 as stated: for every suffix and every type name the extractor returns
\* the name without its trailing suffix, lower-cased, when the name ends with
\* the suffix, and the whole name lower-cased otherwise.
C31_Original ==
  extract.done => extract.key = SuffixRemoved(extract.suffix, extract.name)

\* C32: clear_cache leaves no cache file, whether one existed (it is deleted)
\* or not (nothing changes); from then until the next save no file exists and
\* load_cache returns nothing and raises nothing; a second clear in a row
\* changes nothing.
C32_ClearDeletes ==
  [][/\ last'.op = "clear" =>
          /\ cacheFile' = NoFile
          /\ cacheFile = NoFile => cacheFile' = cacheFile
          /\ UNCHANGED <<mtime, now, probe, registry>>
     /\ harness'.cleared => cacheFile' = NoFile
     /\ (harness.cleared /\ last'.op = "load") => harness'.res = NoResult
     /\ (last.op = "clear" /\ last'.op = "clear") =>
          UNCHANGED <<cacheFile, harness, mtime, now, probe>>
     /\ ClearCache(ClearCache(cacheFile)) = ClearCache(cacheFile)]_vars

\* clear_cache has just deleted a file that existed.
C32_Witness == last.op = "clear" /\ last.has /\ cacheFile = NoFile

\* clear_cache was called while no file existed.
C32_WitnessAbsent == last.op = "clear" /\ ~last.has /\ cacheFile = NoFile

\* A load after a clear, with no save in between, returned nothing.
C32_WitnessLoad ==
  /\ last.op = "load" /\ harness.cleared
  /\ harness.res = NoResult /\ cacheFile = NoFile

\* C33 as stated: every class statement that does not raise yields the new
\* type, registered or not; a concrete type skipped for want of a key is
\* still bound to its name and can be referenced and subclassed.
C33_Original ==
  (last.op = "declare" /\ ~last.raised)
    => keyAttr[last.cls] \notin {Skipped, Undeclared}

\* C34 as stated: the key written back onto a registered type does not
\* decide the key of its subtypes: a concrete subtype that sets no key in its
\* own body, and inherits none from a class body, is keyed by the extractor's
\* result for its own name or handled by the missing-key policy, and its
\* declaration leaves the entry of its registered parent in place.
C34_Original ==
  [][(/\ last'.op = "declare" /\ last'.cls = "Y" /\ ~last'.raised
      /\ Eligible("Y") /\ ExplicitKey("Y") = None
      /\ keyAttr["X"] \in Keys)
       => (/\ last'.regd # <<>> => last'.regd[2] = XKey("Y")
           /\ DictGet(registry', keyAttr["X"])
                = DictGet(registry, keyAttr["X"]))]_vars

\* A read has returned while another thread's discovery was under way.
ReturnedEarly == threads.early # {}

\* C35 as stated: a read never returns while the store's discovery is still
\* in progress, so every read that returns observes what the discovery adds.
C35_Original == ~ReturnedEarly

\* C35 amended: a read that finds the flag set does not wait for a discovery
\* that is under way: it returns at once with the store as it stands, starts
\* no discovery of its own and changes nothing, also when it is issued by a
\* module imported during the scan; the entries it saw stay in the store.
\* Only when the caller guards its first reads with a lock does no read
\* return before the discovery body has run.
C35_ReadsDoNotWait ==
  [][/\ \A t \in Threads :
          (threads.pc[t] = "idle" /\ threads'.pc[t] = "done")
            => (/\ discovered \/ ~config.set
                /\ registry' = registry /\ runs' = runs
                /\ discovered' = discovered)
     /\ ~nested'.started
     /\ nested'.seen => nested'.len <= Len(registry')
     /\ Len(registry) <= Len(registry')
     /\ threads.guarded => ~ReturnedEarly']_vars

\* Without a lock, one thread's read has returned from the still empty store
\* while the other thread is about to run the discovery body.
C35_Witness ==
  /\ ~threads.guarded /\ ReturnedEarly /\ registry = <<>> /\ imported = {}
  /\ \E t \in Threads : threads.pc[t] = "body"

\* A module imported during the scan has read the store and the scan went on.
C35_WitnessNested ==
  /\ nested.seen /\ ~nested.started /\ runs = 1
  /\ \A t \in Threads : threads.pc[t] = "done"

\* The entries of a store, whatever their order.
Entries(reg) == {reg[i] : i \in 1..Len(reg)}

\* What a scan of the package as it is now would leave in the store of the
\* process that is about to read.
LiveScan == FullDiscovery(MarkDiscovered(Proc)).reg

\* C36 as stated: when a read is served from a snapshot, the store holds the
\* keys and types a live scan of the package in its current state would
\* produce, whatever was modified, removed or added since the snapshot was
\* saved.
C36_Original ==
  [][(last'.op \in ReadOps /\ last'.ran /\ report'.loaded)
       => Entries(registry') = Entries(LiveScan)]_vars

----------------------------------------------------------------------------
(* Specification: a caching store over a package one of whose modules      *)
(* fails while it is imported                                               *)

PartialPrograms ==
  {p \in Programs :
     /\ p.pkg = "given" /\ p.cache /\ p.scanner = "host" /\ p.recursive
     /\ ~p.extractor /\ p.skip /\ PlainBinding(p)}

PartialInit ==
  /\ prog \in PartialPrograms
  /\ text = ReadText
  /\ hasSub = TRUE
  /\ cacheFile = NoFile
  /\ harness = NoHarness
  /\ threads = NoThreads
  /\ scan = NoScan
  /\ extract = NoExtract
  /\ auto = NoAuto
  /\ InitProcess
  /\ InitDisk

PartialNext ==
  \/ \E c \in {Root} \cup AppClasses : Declare(c)
  \/ \E m \in Modules : ImportDirect(m)
  \/ \E k \in Keys : Read("getitem", k)
  \/ Read("len", "")
  \/ Restart

PartialSpec == PartialInit /\ [][PartialNext]_vars

\* The modules the wired scan walks.
WalkedModules(s) ==
  IF prog.scanner = "host" /\ s.cfg.recursive THEN RecursiveModules
  ELSE FlatModules

\* The scan started in s skips the i-th module it walks: the module is on
\* disk and its import raises, which the scanner logs and passes over.
SkipsAt(s, mods, i) ==
  /\ OnDisk(mods[i])
  /\ ImportModule(ScanModules(s, SubSeq(mods, 1, i - 1)), mods[i]).exc

ScanSkips(s) ==
  \E i \in 1..Len(WalkedModules(s)) : SkipsAt(s, WalkedModules(s), i)

\* The process as it is when the scan of the read that is about to be made
\* starts: past the guard and the cache attempt.
AtScan == Called(TryLoad(MarkDiscovered(Proc)))

\* C37 as stated: a snapshot is saved only by a scan that covered the whole
\* package; a read whose scan skipped a failing module saves none.
C37_Original ==
  [][(last'.op \in ReadOps /\ last'.ran /\ report'.saved)
       => ~ScanSkips(AtScan)]_vars

\* C38 as stated: under a binding keyed by the primary key whose map
\* started empty, every key of the secondary map is a key of the primary
\* store, and the value under it is the secondary attribute value of the
\* type the primary store holds under that key now, also after a type
\* without the attribute has taken the key over.
C38_Original ==
  prog.secKey = "primary"
    => \A i \in 1..Len(secondary) :
         /\ secondary[i][1] \in DictKeys(registry)
         /\ secondary[i][2]
              = SecLookup(secAttr, DictGet(registry, secondary[i][1]))

\* The body of module m reads the store.
ReadsStore(m) == \E i \in 1..Len(Stmts(m)) : Stmts(m)[i][1] = "read"

\* The step read the store: a read by the application, or the import of a
\* module whose body reads it.
StepReads ==
  \/ last'.op \in ReadOps
  \/ last'.op = "import" /\ \E m \in imported' \ imported : ReadsStore(m)

\* C39: declaring types never runs discovery.  A class statement leaves the
\* discovered flag, the cache file, the run counter, the discovery report
\* and the imported package modules as they were; while the flag is unset
\* no discovery body has run, no scan was called and the cache file was
\* neither read nor written; the flag is set only by a step that reads the
\* store.
C39_DeclaringNeverDiscovers ==
  [][/\ last'.op = "declare"
          => /\ discovered' = discovered /\ runs' = runs
             /\ report' = report /\ cacheFile' = cacheFile
             /\ imported' = imported
     /\ ~discovered'
          => /\ runs' = 0 /\ report' = NoReport
             /\ ~discovered => cacheFile' = cacheFile
     /\ (~discovered /\ discovered') => (StepReads /\ runs' = 1)]_vars

\* Two types were declared under a caching store with a discovery package
\* and nothing has been discovered, loaded, scanned or saved.
C39_Witness ==
  /\ last.op = "declare" /\ last.regd # <<>> /\ Len(registry) = 2
  /\ config.pkg /\ config.scannable /\ config.mgr
  /\ ~discovered /\ runs = 0 /\ report = NoReport /\ imported = {}
  /\ cacheFile = NoFile

\* The first read after such declarations starts the discovery.
C39_WitnessFirstRead ==
  /\ last.op = "len" /\ last.ran /\ runs = 1 /\ discovered
  /\ report.scanned /\ report.saved
  /\ keyAttr["X"] # Undeclared

----------------------------------------------------------------------------
(* Specification: class statements without a RegistryConfig                *)

AutoInit ==
  /\ prog \in KeyPrograms /\ ~prog.extractor /\ prog.skip
  /\ text = ReadText
  /\ hasSub = FALSE
  /\ cacheFile = NoFile
  /\ harness = NoHarness
  /\ threads = NoThreads
  /\ scan = NoScan
  /\ extract = NoExtract
  /\ auto = NoAuto
  /\ InitProcess
  /\ InitDisk

AutoNext == \E t \in AutoTypes : \E b \in AutoBodies : DeclareAuto(t, b)

AutoSpec == AutoInit /\ [][AutoNext]_vars

\* The type of the last class statement, and the entries registry r holds
\* for type t.
LastAuto == auto.last.t
EntriesOf(r, t) == {i \in 1..Len(auto.regs[r]) : auto.regs[r][i][2] = t}

\* The body of the last class statement sets __registry_key__ to a name.
DeclaresKeyName == auto.last.body.regKey \notin {Unset, None}

\* The last class statement ran under the metaclass that carries a registry.
UnderCarrier ==
  auto.last.body.carrier
    \/ \E i \in 1..Len(AutoBases(LastAuto)) :
         Carrier(auto, AutoBases(LastAuto)[i])

\* The registry of the first ancestor of the last type that has one bound.
AncestorRegistry == RegistryOf(auto, BoundAncestor(auto, LastAuto))

\* The last type is in no registry but r.
OnlyIn(r) == \A q \in RegIds \ {r} : EntriesOf(q, LastAuto) = {}

\* What the claim says of the last class statement when its metaclass
\* carries no registry.
InheritsOrSynthesizes ==
  IF BoundAncestor(auto, LastAuto) # None
  THEN /\ auto.last.reg = AncestorRegistry
       /\ ~auto.last.synth /\ auto.bound[LastAuto] = None
       /\ OnlyIn(AncestorRegistry)
       /\ auto.last.regd # <<>>
            => DictGet(auto.regs[AncestorRegistry], auto.last.regd[2])
                 = LastAuto
  ELSE IF DeclaresKeyName
  THEN /\ auto.last.synth /\ auto.last.reg = LastAuto
       /\ auto.bound[LastAuto] = LastAuto
       /\ OnlyIn(LastAuto)
       /\ \A i \in 1..Len(auto.regs[LastAuto]) :
            auto.regs[LastAuto][i][2] = LastAuto
  ELSE /\ auto.last.reg = None /\ ~auto.last.synth
       /\ auto.bound[LastAuto] = None
       /\ \A q \in RegIds : EntriesOf(q, LastAuto) = {}

C40_WitnessSecondBase ==
  /\ LastAuto = "C" /\ ~UnderCarrier /\ DeclaresKeyName
  /\ auto.bound["A"] = None /\ auto.bound["D"] = "D"
  /\ auto.last.reg = "D" /\ auto.last.regd # <<>>

\* A type without bound ancestor and without a name of its own: no
\* registry, not registered, although it sets the attributes.
C40_WitnessNeither ==
  /\ LastAuto = "B" /\ ~UnderCarrier /\ auto.last.body.hasVal
  /\ auto.last.reg = None /\ auto.bound["B"] = None /\ auto.st["B"] = "type"

\* Under the carrying metaclass, B with the bound ancestor A registers into
\* the metaclass's registry.
C40_WitnessCarrier ==
  /\ LastAuto = "B" /\ auto.last.body.carrier /\ auto.bound["A"] = "A"
  /\ auto.last.reg = MetaRegistry /\ auto.regs["A"] = <<>>
  /\ auto.regs[MetaRegistry] = << <<AttrValue("B", "name"), "B">> >>

============================================================================
